---- MODULE Spec2Model ----
(***************************************************************************)
(* A model of mdstream's StreamingParser (src/src/lib.rs): the line        *)
(* buffer behind feed/flush, the block state machine of process_line, the  *)
(* reference-link resolver with its citation ledger, and the renderers     *)
(* that turn a completed block into terminal text.                         *)
(*                                                                         *)
(* A Rust String is modelled as a sequence of characters, a character as   *)
(* a TLA+ string.  Characters outside ASCII carry their UTF-8 byte length  *)
(* (Bytes), because the source mixes byte offsets with character           *)
(* positions.  A panic of the Rust code is an outcome of its own.          *)
(***************************************************************************)
EXTENDS Integers, Sequences, FiniteSets, TLC

\* ------------------------------------------------------------------------
\* Characters
\* ------------------------------------------------------------------------
NL == "\n"
TAB == "\t"
BSLASH == "\\"
DQUOTE == "\""
\* U+3000 IDEOGRAPHIC SPACE: White_Space, three bytes in UTF-8
IDEO == "U+3000"
\* U+00E9 (e acute): not whitespace, two bytes in UTF-8
EACUTE == "U+00E9"
\* U+2705 (white heavy check mark): not whitespace, three bytes in UTF-8,
\* two columns wide on a terminal
CHECK == "U+2705"
\* U+00A0 NO-BREAK SPACE: White_Space, two bytes in UTF-8
NBSP == "U+00A0"
ESC == "ESC"
BEL == "BEL"
\* U+2500, U+2502, U+2022 and the table corners, one character each
BOXH == "U+2500"
BOXV == "U+2502"

\* ------------------------------------------------------------------------
\* Strings (sequences of characters)
\* ------------------------------------------------------------------------
Range(s) == {s[i] : i \in 1..Len(s)}

\* str::len (bytes)
Bytes(s) ==
    Len(s) + 2 * Cardinality({i \in 1..Len(s) : s[i] \in {IDEO, CHECK}})
           + Cardinality({i \in 1..Len(s) : s[i] \in {EACUTE, NBSP}})

DropN(s, n) == SubSeq(s, n + 1, Len(s))
TakeN(s, n) == SubSeq(s, 1, n)

\* number of leading characters of s that satisfy the set membership
LeadCount(s, set) ==
    IF \A i \in 1..Len(s) : s[i] \in set THEN Len(s)
    ELSE (CHOOSE k \in 0..(Len(s) - 1) :
            /\ \A i \in 1..k : s[i] \in set
            /\ s[k + 1] \notin set)

TrailCount(s, set) ==
    IF \A i \in 1..Len(s) : s[i] \in set THEN Len(s)
    ELSE (CHOOSE k \in 0..(Len(s) - 1) :
            /\ \A i \in (Len(s) - k + 1)..Len(s) : s[i] \in set
            /\ s[Len(s) - k] \notin set)

WsChars == {" ", TAB, NL, IDEO, NBSP}

\* str::trim_start, str::trim_end, str::trim
TrimStart(s) == DropN(s, LeadCount(s, WsChars))
TrimEnd(s) == TakeN(s, Len(s) - TrailCount(s, WsChars))
Trim(s) == TrimEnd(TrimStart(s))

\* str::trim_end_matches('\n')
TrimEndNl(s) == TakeN(s, Len(s) - TrailCount(s, {NL}))

\* line.len() - line.trim_start().len(): the leading whitespace in BYTES
LeadingSpaces(s) == Bytes(s) - Bytes(TrimStart(s))

StartsWith(s, pre) == Len(s) >= Len(pre) /\ TakeN(s, Len(pre)) = pre
EndsWith(s, suf) == Len(s) >= Len(suf) /\ DropN(s, Len(s) - Len(suf)) = suf

\* first position (1-based) i >= from with s[i] \in set, 0 when there is none
FindFrom(s, set, from) ==
    IF \E i \in from..Len(s) : s[i] \in set
    THEN CHOOSE i \in from..Len(s) :
            s[i] \in set /\ \A j \in from..(i - 1) : s[j] \notin set
    ELSE 0

FindChar(s, c) == FindFrom(s, {c}, 1)

\* str::contains for a substring
Contains(s, sub) ==
    \E i \in 1..(Len(s) - Len(sub) + 1) : SubSeq(s, i, i + Len(sub) - 1) = sub

\* The character index k with Bytes(TakeN(s, k)) = n, i.e. where the byte
\* offset n falls on a character boundary; -1 when it falls inside a
\* character or behind the end (slicing there panics).
CharBoundary(s, n) ==
    IF \E k \in 0..Len(s) : Bytes(TakeN(s, k)) = n
    THEN CHOOSE k \in 0..Len(s) : Bytes(TakeN(s, k)) = n
    ELSE -1

RECURSIVE Repeat(_, _)
Repeat(s, n) == IF n <= 0 THEN <<>> ELSE s \o Repeat(s, n - 1)

RECURSIVE Concat(_)
Concat(ss) == IF ss = <<>> THEN <<>> ELSE Head(ss) \o Concat(Tail(ss))

\* [String]::join(sep)
RECURSIVE Join(_, _)
Join(ss, sep) ==
    IF ss = <<>> THEN <<>>
    ELSE IF Len(ss) = 1 THEN ss[1]
    ELSE ss[1] \o sep \o Join(Tail(ss), sep)

\* str::split(c): the pieces between occurrences of c (always at least one)
RECURSIVE SplitOn(_, _)
SplitOn(s, c) ==
    LET k == FindChar(s, c)
    IN IF k = 0 THEN <<s>>
       ELSE <<TakeN(s, k - 1)>> \o SplitOn(DropN(s, k), c)

\* str::split_whitespace
RECURSIVE SplitWhitespace(_)
SplitWhitespace(s) ==
    LET t == TrimStart(s)
        k == FindFrom(t, WsChars, 1)
    IN IF t = <<>> THEN <<>>
       ELSE IF k = 0 THEN <<t>>
       ELSE <<TakeN(t, k - 1)>> \o SplitWhitespace(DropN(t, k))

ToLowercase(s) ==
    [i \in 1..Len(s) |-> IF s[i] = "A" THEN "a" ELSE IF s[i] = "B" THEN "b"
                         ELSE IF s[i] = "X" THEN "x" ELSE s[i]]

\* usize::to_string for the small numbers of the model
RECURSIVE NumStr(_)
NumStr(n) ==
    LET d == <<"0", "1", "2", "3", "4", "5", "6", "7", "8", "9">>
    IN IF n < 10 THEN <<d[n + 1]>> ELSE NumStr(n \div 10) \o <<d[(n % 10) + 1]>>


\* ------------------------------------------------------------------------
\* Line classification (pure functions of StreamingParser)
\* ------------------------------------------------------------------------
\* U+0060 GRAVE ACCENT (backtick)
BTICK == "U+0060"
Fence3 == <<BTICK, BTICK, BTICK>>
Tilde3 == <<"~", "~", "~">>
CommentOpen == <<"<", "!", "-", "-">>
CommentClose == <<"-", "-", ">">>

\* The heading level 1..6, or 0 for None.
parse_atx_heading(line) ==
    LET k == LeadCount(line, {"#"})
    IN IF k >= 1 /\ k <= 6 /\ Len(line) > k /\ line[k + 1] = " " THEN k ELSE 0

\* 1 for an underline of '=', 2 for one of '-', 0 for None.
\* As parse_setext_underline, with level 2 for both underlines.
parse_setext_underline_level_2(line) ==
    LET trimmed == Trim(line)
    IN IF LeadingSpaces(line) > 3 THEN 0
       ELSE IF trimmed # <<>> /\ Range(trimmed) = {"="} THEN 2
       ELSE IF trimmed # <<>> /\ Range(trimmed) = {"-"} THEN 2
       ELSE 0

parse_setext_underline(line) ==
    LET trimmed == Trim(line)
    IN IF LeadingSpaces(line) > 3 THEN 0
       ELSE IF trimmed # <<>> /\ Range(trimmed) = {"="} THEN 1
       ELSE IF trimmed # <<>> /\ Range(trimmed) = {"-"} THEN 2
       ELSE 0

\* "true", "false", or "panic": &trimmed[4..trimmed.len() - 3] panics when
\* the slice starts behind its end, i.e. when the line has fewer than 7 bytes.
is_html_comment_line(line) ==
    LET trimmed == Trim(line)
    IN IF ~StartsWith(trimmed, CommentOpen) THEN "false"
       ELSE IF ~EndsWith(trimmed, CommentClose) THEN "false"
       ELSE IF 4 > Bytes(trimmed) - 3 THEN "panic"
       ELSE IF Contains(SubSeq(trimmed, 5, Len(trimmed) - 3), CommentClose)
            THEN "false" ELSE "true"

\* As is_horizontal_rule, for rule characters that stand together.
is_horizontal_rule_contiguous(line) ==
    LET trimmed == Trim(line)
    IN /\ LeadingSpaces(line) <= 3
       /\ \A i, j \in 1..Len(trimmed) : trimmed[i] = trimmed[j]
       /\ trimmed # <<>> /\ trimmed[1] \in {"-", "_", "*"}
       /\ Len(trimmed) >= 3

is_horizontal_rule(line) ==
    LET trimmed == Trim(line)
        rule == {i \in 1..Len(trimmed) : trimmed[i] \in {"-", "_", "*"}}
    IN /\ LeadingSpaces(line) <= 3
       /\ \A i \in 1..Len(trimmed) : trimmed[i] \in {"-", "_", "*", " ", TAB}
       /\ \A i, j \in rule : trimmed[i] = trimmed[j]
       /\ Cardinality(rule) >= 3

NoFence == [ok |-> FALSE, info |-> <<>>, fence |-> <<>>, indent |-> 0]

\* As parse_code_fence, without the indent of the fence.
parse_code_fence_flush_left(line) ==
    LET leading_spaces == LeadingSpaces(line)
        trimmed == TrimStart(line)
    IN IF leading_spaces > 3 THEN NoFence
       ELSE IF StartsWith(trimmed, Fence3)
            THEN [ok |-> TRUE, info |-> Trim(DropN(trimmed, 3)),
                  fence |-> Fence3, indent |-> 0]
       ELSE IF StartsWith(trimmed, Tilde3)
            THEN [ok |-> TRUE, info |-> Trim(DropN(trimmed, 3)),
                  fence |-> Tilde3, indent |-> 0]
       ELSE NoFence

parse_code_fence(line) ==
    LET leading_spaces == LeadingSpaces(line)
        trimmed == TrimStart(line)
    IN IF leading_spaces > 3 THEN NoFence
       ELSE IF StartsWith(trimmed, Fence3)
            THEN [ok |-> TRUE, info |-> Trim(DropN(trimmed, 3)),
                  fence |-> Fence3, indent |-> leading_spaces]
       ELSE IF StartsWith(trimmed, Tilde3)
            THEN [ok |-> TRUE, info |-> Trim(DropN(trimmed, 3)),
                  fence |-> Tilde3, indent |-> leading_spaces]
       ELSE NoFence

normalize_link_label(label) == ToLowercase(Join(SplitWhitespace(label), <<" ">>))

\* Position in s of the first ']' at or after i that is not preceded by an
\* odd backslash escape, 0 when there is none (the label scan of
\* parse_link_definition).
RECURSIVE LabelEnd(_, _, _)
LabelEnd(s, i, in_escape) ==
    IF i > Len(s) THEN 0
    ELSE IF in_escape THEN LabelEnd(s, i + 1, FALSE)
    ELSE IF s[i] = BSLASH THEN LabelEnd(s, i + 1, TRUE)
    ELSE IF s[i] = "]" THEN i
    ELSE LabelEnd(s, i + 1, FALSE)

NoDef == [ok |-> FALSE, label |-> <<>>, url |-> <<>>, title |-> <<>>]

\* An Option<String> title is <<>> for None and <<t>> for Some(t).
TitleUpTo(stripped, close) ==
    LET e == FindChar(stripped, close)
    IN IF e = 0 THEN <<>> ELSE <<TakeN(stripped, e - 1)>>

ParseTitle(remaining0) ==
    LET remaining == TrimStart(remaining0)
    IN IF remaining = <<>> THEN <<>>
       ELSE IF Head(remaining) = DQUOTE THEN TitleUpTo(Tail(remaining), DQUOTE)
       ELSE IF Head(remaining) = "'" THEN TitleUpTo(Tail(remaining), "'")
       ELSE IF Head(remaining) = "(" THEN TitleUpTo(Tail(remaining), ")")
       ELSE <<>>

parse_link_definition(line) ==
    LET trimmed0 == TrimEndNl(line)
        trimmed == TrimStart(trimmed0)
        label_end == LabelEnd(trimmed, 2, FALSE)
        label == SubSeq(trimmed, 2, label_end - 1)
        after_label == DropN(trimmed, label_end)
        url_part == TrimStart(DropN(after_label, 1))
        stripped == Tail(url_part)
        gt == FindChar(stripped, ">")
        ws == FindFrom(url_part, WsChars, 1)
        bare_end == IF ws = 0 THEN Len(url_part) ELSE ws - 1
    IN IF LeadingSpaces(trimmed0) > 3 THEN NoDef
       ELSE IF trimmed = <<>> \/ Head(trimmed) # "[" THEN NoDef
       ELSE IF label_end = 0 THEN NoDef
       ELSE IF Trim(label) = <<>> THEN NoDef
       ELSE IF after_label = <<>> \/ Head(after_label) # ":" THEN NoDef
       ELSE IF url_part = <<>> THEN NoDef
       ELSE IF Head(url_part) = "<"
            THEN IF gt = 0 THEN NoDef
                 ELSE [ok |-> TRUE, label |-> label, url |-> TakeN(stripped, gt - 1),
                       title |-> ParseTitle(DropN(stripped, gt))]
       ELSE [ok |-> TRUE, label |-> label, url |-> TakeN(url_part, bare_end),
             title |-> ParseTitle(DropN(url_part, bare_end))]

NoItem == [ok |-> FALSE, indent |-> 0, type |-> "Unordered"]

parse_list_item(line) ==
    LET leading_spaces == LeadingSpaces(line)
        trimmed == TrimStart(line)
        rest == Tail(trimmed)
        dot_pos == FindChar(trimmed, ".")
        before_dot == TakeN(trimmed, dot_pos - 1)
        after_dot == DropN(trimmed, dot_pos)
    IN IF leading_spaces > 12 THEN NoItem
       ELSE IF /\ trimmed # <<>>
               /\ Head(trimmed) \in {"-", "+", "*"}
               /\ LeadingSpaces(rest) \in 1..4
               /\ TrimStart(rest) # <<>>
            THEN [ok |-> TRUE, indent |-> leading_spaces, type |-> "Unordered"]
       ELSE IF /\ dot_pos > 1
               /\ dot_pos < Len(trimmed)
               /\ \A i \in 1..Len(before_dot) : before_dot[i] \in {"0", "1", "2", "3", "4", "5", "6", "7", "8", "9"}
               /\ LeadingSpaces(after_dot) \in 1..4
               /\ TrimStart(after_dot) # <<>>
            THEN [ok |-> TRUE, indent |-> leading_spaces, type |-> "Ordered"]
       ELSE NoItem

\* The marker loop shared by parse_blockquote_marker and
\* strip_blockquote_markers: consume up to limit markers '>' with one
\* optional space each; returns <<markers consumed, rest of the line>>.
RECURSIVE EatMarkers(_, _, _)
EatMarkers(s, limit, n) ==
    IF n < limit /\ s # <<>> /\ Head(s) = ">"
    THEN LET r == Tail(s)
         IN EatMarkers(IF r # <<>> /\ Head(r) = " " THEN Tail(r) ELSE r, limit, n + 1)
    ELSE <<n, s>>

\* The nesting level, or 0 for None.
parse_blockquote_marker(line) ==
    LET trimmed == TrimStart(line)
    IN IF Bytes(line) - Bytes(trimmed) > 3 THEN 0
       ELSE EatMarkers(trimmed, Len(trimmed) + 1, 0)[1]

strip_blockquote_markers(line, expected_nesting) ==
    EatMarkers(TrimStart(line), expected_nesting, 0)[2]

\* As the test of one cell, content with two dashes.
is_table_delimiter_cell_two_dashes(chars) ==
    LET starts_colon == chars[1] = ":"
        ends_colon == chars[Len(chars)] = ":"
        dash_section ==
            IF starts_colon /\ ends_colon THEN SubSeq(chars, 2, Len(chars) - 1)
            ELSE IF starts_colon THEN DropN(chars, 1)
            ELSE IF ends_colon THEN TakeN(chars, Len(chars) - 1)
            ELSE chars
    IN IF chars = <<":">> THEN "panic"
       ELSE IF Len(dash_section) >= 2 /\ Range(dash_section) = {"-"} THEN "true"
       ELSE "false"

\* The test of one cell: its dash section is three dashes or more.  The
\* cell ":" starts and ends with a colon, and &chars[1..chars.len() - 1]
\* panics for it (the slice would start behind its end).
is_table_delimiter_cell(chars) ==
    LET starts_colon == chars[1] = ":"
        ends_colon == chars[Len(chars)] = ":"
        dash_section ==
            IF starts_colon /\ ends_colon THEN SubSeq(chars, 2, Len(chars) - 1)
            ELSE IF starts_colon THEN DropN(chars, 1)
            ELSE IF ends_colon THEN TakeN(chars, Len(chars) - 1)
            ELSE chars
    IN IF chars = <<":">> THEN "panic"
       ELSE IF Len(dash_section) >= 3 /\ Range(dash_section) = {"-"} THEN "true"
       ELSE "false"

\* "true", "false", or "panic": the cells are tested in order, and the
\* first one that is no delimiter cell decides.
is_table_delimiter_row(line) ==
    LET pieces == SplitOn(line, "|")
        NonEmpty(cell) == cell # <<>>
        cells == SelectSeq([i \in 1..Len(pieces) |-> Trim(pieces[i])], NonEmpty)
        bad == {i \in 1..Len(cells) : is_table_delimiter_cell(cells[i]) # "true"}
    IN IF "|" \notin Range(line) \/ cells = <<>> THEN "false"
       ELSE IF bad = {} THEN "true"
       ELSE is_table_delimiter_cell(cells[CHOOSE i \in bad : \A j \in bad : i <= j])

RECURSIVE TableCells(_, _, _, _)
TableCells(line, i, current_cell, escaped) ==
    IF i > Len(line)
    THEN IF Trim(current_cell) # <<>> THEN <<Trim(current_cell)>> ELSE <<>>
    ELSE IF escaped THEN TableCells(line, i + 1, Append(current_cell, line[i]), FALSE)
    ELSE IF line[i] = BSLASH THEN TableCells(line, i + 1, current_cell, TRUE)
    ELSE IF line[i] = "|"
         THEN <<Trim(current_cell)>> \o TableCells(line, i + 1, <<>>, FALSE)
    ELSE TableCells(line, i + 1, Append(current_cell, line[i]), FALSE)

parse_table_row(line) ==
    LET cells == TableCells(line, 1, <<>>, FALSE)
        c1 == IF cells # <<>> /\ cells[1] = <<>> THEN Tail(cells) ELSE cells
    IN IF c1 # <<>> /\ c1[Len(c1)] = <<>> THEN TakeN(c1, Len(c1) - 1) ELSE c1

parse_alignments(delimiter_row) ==
    LET cells == parse_table_row(delimiter_row)
    IN [i \in 1..Len(cells) |->
          LET trimmed == Trim(cells[i])
              starts_colon == trimmed # <<>> /\ Head(trimmed) = ":"
              ends_colon == trimmed # <<>> /\ trimmed[Len(trimmed)] = ":"
          IN IF starts_colon /\ ends_colon THEN "Center"
             ELSE IF ends_colon THEN "Right"
             ELSE "Left"]

\* ------------------------------------------------------------------------
\* Escape sequences, visible text and wrapping
\* ------------------------------------------------------------------------
Sgr(code) == <<ESC, "[">> \o code \o <<"m">>
SgrReset == Sgr(<<"0">>)
Osc8Open(url) == <<ESC, "]", "8", ";", ";">> \o url \o <<ESC, BSLASH>>
Osc8Close == <<ESC, "]", "8", ";", ";", ESC, BSLASH>>
LinkStyle == Sgr(<<"3", "4", ";", "4">>)
HeadingStyle == Sgr(<<"1", ";", "3", "4">>)
CodeStyle == Sgr(<<"3", "8", ";", "5", ";", "1", "6", "7", ";", "4", "8", ";", "5", ";", "2", "3", "5">>)

\* "\x1b]8;;{url}\x1b\\\x1b[34;4m{text}\x1b[0m\x1b]8;;\x1b\\"
Hyperlink(url, text) == Osc8Open(url) \o LinkStyle \o text \o SgrReset \o Osc8Close

\* chars[i] is ESC: the position of the last character that the scanners of
\* strip_ansi and wrap_text treat as part of this escape sequence.
EscEnd(chars, i) ==
    IF i + 1 > Len(chars) THEN i
    ELSE IF chars[i + 1] = "["
         THEN LET m == FindFrom(chars, {"m"}, i + 2)
              IN IF m = 0 THEN Len(chars) ELSE m
    ELSE IF chars[i + 1] = "]"
         THEN LET ends == {k \in (i + 2)..Len(chars) :
                              \/ chars[k] = BEL
                              \/ chars[k] = ESC /\ k + 1 <= Len(chars) /\ chars[k + 1] = BSLASH}
                  k0 == CHOOSE k \in ends : \A j \in ends : k <= j
              IN IF ends = {} THEN Len(chars)
                 ELSE IF chars[k0] = BEL THEN k0 ELSE k0 + 1
    ELSE i + 1

\* The loop of strip_ansi from position i: the characters before the next
\* ESC are pushed, the escape sequence is skipped.
RECURSIVE StripFrom(_, _)
StripFrom(chars, i) ==
    LET esc == FindFrom(chars, {ESC}, i)
    IN IF esc = 0 THEN DropN(chars, i - 1)
       ELSE SubSeq(chars, i, esc - 1) \o StripFrom(chars, EscEnd(chars, esc) + 1)

strip_ansi(text) == StripFrom(text, 1)

\* tokens.push(current_token) unless the token is empty
Token(current_token) == IF current_token # <<>> THEN <<current_token>> ELSE <<>>

\* The token loop of wrap_text from position i: the characters before the
\* next ESC or whitespace are pushed to the current token, an escape
\* sequence is copied whole into it, a whitespace character ends it.
RECURSIVE WrapTokens(_, _, _)
WrapTokens(chars, i, current_token) ==
    LET k == FindFrom(chars, {ESC} \cup WsChars, i)
    IN IF k = 0 THEN Token(current_token \o DropN(chars, i - 1))
       ELSE IF chars[k] = ESC
            THEN WrapTokens(chars, EscEnd(chars, k) + 1,
                            current_token \o SubSeq(chars, i, EscEnd(chars, k)))
       ELSE Token(current_token \o SubSeq(chars, i, k - 1)) \o WrapTokens(chars, k + 1, <<>>)

\* The packing loop of wrap_text; returns <<lines, current_line>>.
RECURSIVE WrapPack(_, _, _, _, _, _, _, _, _)
WrapPack(tokens, k, lines, current_line, current_width, is_first_line, first_indent_width, cont_indent, width) ==
    IF k > Len(tokens) THEN <<lines, current_line>>
    ELSE LET token == tokens[k]
             token_width == Len(strip_ansi(token))
             start_width == IF is_first_line THEN first_indent_width ELSE Len(cont_indent)
         IN IF current_width > start_width
            THEN IF current_width + 1 + token_width > width
                 THEN WrapPack(tokens, k + 1, Append(lines, current_line),
                               cont_indent \o token, Len(cont_indent) + token_width,
                               FALSE, first_indent_width, cont_indent, width)
                 ELSE WrapPack(tokens, k + 1, lines, current_line \o <<" ">> \o token,
                               current_width + 1 + token_width, is_first_line,
                               first_indent_width, cont_indent, width)
            ELSE WrapPack(tokens, k + 1, lines, current_line \o token,
                          current_width + token_width, is_first_line,
                          first_indent_width, cont_indent, width)

\* The end of wrap_text: the last line is pushed unless it is empty or only
\* an indent; no line at all leaves the first indent.
WrapFinish(packed, first_indent, cont_indent) ==
    IF packed[2] # <<>> /\ packed[2] # first_indent /\ packed[2] # cont_indent
    THEN Append(packed[1], packed[2])
    ELSE IF packed[1] = <<>> THEN <<first_indent>> ELSE packed[1]

WrapLines(tokens, first_indent, cont_indent, width) ==
    IF tokens = <<>> THEN first_indent \o <<NL>>
    ELSE Join(WrapFinish(WrapPack(tokens, 1, <<>>, first_indent, Len(first_indent), TRUE,
                                  Len(first_indent), cont_indent, width),
                         first_indent, cont_indent),
              <<NL>>)

wrap_text(text, first_indent, cont_indent, width) ==
    WrapLines(WrapTokens(text, 1, <<>>), first_indent, cont_indent, width)

\* ------------------------------------------------------------------------
\* Images: the fields of StreamingParser that rendering reads, and the
\* files and servers the fetches see
\* ------------------------------------------------------------------------
VARIABLES
    image_protocol,         \* "None" or "Kitty"
    image_cache,            \* source string -> bytes ("png": an image that decodes)
    net                     \* source string -> what a fetch of it returns now:
                            \* "err" or the bytes

\* ------------------------------------------------------------------------
\* Inline parsing
\* ------------------------------------------------------------------------
\* Positions are 1-based; 0 stands for None.
find_closing(marker, chars, start) ==
    LET hits == {i \in start..(Len(chars) - Len(marker) + 1) :
                    SubSeq(chars, i, i + Len(marker) - 1) = marker}
    IN IF hits = {} THEN 0 ELSE CHOOSE i \in hits : \A j \in hits : i <= j

NoLink == [ok |-> FALSE, text |-> <<>>, url |-> <<>>, end_pos |-> 0]

\* The text before the first whitespace of the trimmed parenthesis content.
UrlOf(content0) ==
    LET link_content == Trim(content0)
        space_pos == FindFrom(link_content, WsChars, 1)
    IN IF space_pos = 0 THEN link_content ELSE Trim(TakeN(link_content, space_pos - 1))

parse_link(chars, start) ==
    LET text_end == find_closing(<<"]">>, chars, start + 1)
        url_end == find_closing(<<")">>, chars, text_end + 2)
    IN IF text_end = 0 THEN NoLink
       ELSE IF text_end + 1 > Len(chars) \/ chars[text_end + 1] # "(" THEN NoLink
       ELSE IF url_end = 0 THEN NoLink
       ELSE [ok |-> TRUE, text |-> SubSeq(chars, start + 1, text_end - 1),
             url |-> UrlOf(SubSeq(chars, text_end + 2, url_end - 1)),
             end_pos |-> url_end + 1]

NoImage == [ok |-> FALSE, alt |-> <<>>, src |-> <<>>, end_pos |-> 0]

parse_image(chars, start) ==
    LET text_end == find_closing(<<"]">>, chars, start + 2)
        url_end == find_closing(<<")">>, chars, text_end + 2)
    IN IF start + 1 > Len(chars) \/ chars[start] # "!" \/ chars[start + 1] # "[" THEN NoImage
       ELSE IF text_end = 0 THEN NoImage
       ELSE IF text_end + 1 > Len(chars) \/ chars[text_end + 1] # "(" THEN NoImage
       ELSE IF url_end = 0 THEN NoImage
       ELSE [ok |-> TRUE, alt |-> SubSeq(chars, start + 2, text_end - 1),
             src |-> UrlOf(SubSeq(chars, text_end + 2, url_end - 1)),
             end_pos |-> url_end + 1]

\* fetch_image_static, and the fetch at the end of load_image_data: a local
\* file read or a network GET, Ok(bytes) or Err.
fetch_image_static(src) == IF src \in DOMAIN net THEN net[src] ELSE "err"

load_image_data(src) ==
    IF src \in DOMAIN image_cache THEN image_cache[src] ELSE fetch_image_static(src)

\* process_image and render_kitty_image over the bytes of src: the escape
\* sequence of the terminal image protocol carrying them, then a newline.
render_kitty_image(src) == <<ESC, "_", "G">> \o src \o <<ESC, BSLASH, NL>>

\* ImageProtocol::None is the protocol of StreamingParser::new()
render_image(alt, src) ==
    IF image_protocol = "None" THEN <<"!", "[">> \o alt \o <<"]", "(">> \o src \o <<")">>
    ELSE IF load_image_data(src) = "png" THEN render_kitty_image(src)
    ELSE alt

NoRef == [ok |-> FALSE, text |-> <<>>, label |-> <<>>, end_pos |-> 0]

parse_reference_link(chars, start) ==
    LET text_end == find_closing(<<"]">>, chars, start + 1)
        text == SubSeq(chars, start + 1, text_end - 1)
        after_bracket == text_end + 1
        label_end == find_closing(<<"]">>, chars, after_bracket + 1)
        label == SubSeq(chars, after_bracket + 1, label_end - 1)
    IN IF text_end = 0 THEN NoRef
       ELSE IF Trim(text) = <<>> THEN NoRef
       ELSE IF after_bracket <= Len(chars) /\ chars[after_bracket] = "["
            THEN IF label_end = 0 THEN NoRef
                 ELSE IF label = <<>>
                      THEN [ok |-> TRUE, text |-> text, label |-> text,
                            end_pos |-> label_end + 1]
                 ELSE [ok |-> TRUE, text |-> text, label |-> label,
                       end_pos |-> label_end + 1]
       ELSE IF after_bracket > Len(chars) \/ chars[after_bracket] \notin {"[", "("}
            THEN [ok |-> TRUE, text |-> text, label |-> text, end_pos |-> text_end + 1]
       ELSE NoRef

\* parse_html_tag, the comment branch: <<found, end_pos>>.  A '<' that is
\* not followed by "!--" and has no closing '>' is no tag at all; the lines
\* of this model contain no other '<'.
parse_html_tag(chars, start) ==
    LET close == find_closing(CommentClose, chars, start + 4)
    IN IF start + 3 <= Len(chars) /\ SubSeq(chars, start, start + 3) = CommentOpen
       THEN IF close = 0 THEN <<FALSE, 0>> ELSE <<TRUE, close + 3>>
       ELSE <<FALSE, 0>>

\* ------------------------------------------------------------------------
\* HTML entities
\* ------------------------------------------------------------------------
\* HTML_ENTITIES, the names the texts of this model use
HTML_ENTITIES ==
    [name \in {<<"a", "m", "p">>, <<"l", "t">>, <<"n", "b", "s", "p">>} |->
        IF name = <<"a", "m", "p">> THEN "&" ELSE IF name = <<"l", "t">> THEN "<" ELSE NBSP]

\* char::is_ascii_alphanumeric
AsciiAlphanumeric ==
    {"0", "1", "2", "3", "4", "5", "6", "7", "8", "9",
     "a", "b", "c", "d", "e", "f", "g", "h", "i", "j", "k", "l", "m", "n", "o", "p", "q",
     "r", "s", "t", "u", "v", "w", "x", "y", "z", "A", "B", "C", "D", "E", "F", "G", "H",
     "I", "J", "K", "L", "M", "N", "O", "P", "Q", "R", "S", "T", "U", "V", "W", "X", "Y", "Z"}

\* char::to_digit(radix) for radix 10 and 16, -1 for None
DigitValue(c, radix) ==
    LET lower == <<"0", "1", "2", "3", "4", "5", "6", "7", "8", "9",
                   "a", "b", "c", "d", "e", "f">>
        upper == <<"0", "1", "2", "3", "4", "5", "6", "7", "8", "9",
                   "A", "B", "C", "D", "E", "F">>
        hit == {v \in 1..radix : lower[v] = c \/ upper[v] = c}
    IN IF hit = {} THEN -1 ELSE (CHOOSE v \in hit : TRUE) - 1

\* u32::from_str_radix followed by char::from_u32, from digit k and the
\* value acc on: the code point, or -1 when the numeral is empty, a
\* character is no digit of the radix, or the value is a surrogate or
\* above 0x10FFFF (no char, whether or not it still fits a u32).
RECURSIVE ParseCodepoint(_, _, _, _)
ParseCodepoint(s, k, radix, acc) ==
    IF k > Len(s)
    THEN IF k = 1 \/ (radix = 16 /\ k = 2) \/ acc \in 55296..57343 THEN -1 ELSE acc
    ELSE IF DigitValue(s[k], radix) < 0 \/ acc * radix + DigitValue(s[k], radix) > 1114111
         THEN -1
    ELSE ParseCodepoint(s, k + 1, radix, acc * radix + DigitValue(s[k], radix))

NoEntity == [ok |-> FALSE, decoded |-> "", consumed |-> 0]

\* decode_html_entity(chars, start).  The scan takes at most 11 characters
\* that are alphanumeric or '#' (';', whitespace and '&' are none of them);
\* consumed counts the ';' when the scan stopped at one.
decode_html_entity(chars, start) ==
    LET n == LeadCount(DropN(chars, start), AsciiAlphanumeric \cup {"#"})
        end == start + 1 + (IF n > 11 THEN 11 ELSE n)
        has_semicolon == end <= Len(chars) /\ chars[end] = ";"
        consumed == IF has_semicolon THEN end - start + 1 ELSE end - start
        entity_content == SubSeq(chars, start + 1, end - 1)
        num_str == Tail(entity_content)
        codepoint == IF num_str # <<>> /\ num_str[1] \in {"x", "X"}
                     THEN ParseCodepoint(num_str, 2, 16, 0)
                     ELSE ParseCodepoint(num_str, 1, 10, 0)
        \* the characters behind the code points the texts of this model use
        char == IF codepoint = 38 THEN "&" ELSE IF codepoint = 42 THEN "*"
                ELSE IF codepoint = 65 THEN "A" ELSE IF codepoint = 160 THEN NBSP
                ELSE IF codepoint = 9989 THEN CHECK
                ELSE "U+" \o ToString(codepoint)   \* any other, by its number
    IN IF start > Len(chars) \/ chars[start] # "&" \/ end <= start + 1 THEN NoEntity
       ELSE IF entity_content[1] = "#"
            THEN IF codepoint < 0 THEN NoEntity
                 ELSE [ok |-> TRUE, decoded |-> char, consumed |-> consumed]
       ELSE IF entity_content \in DOMAIN HTML_ENTITIES
            THEN [ok |-> TRUE, decoded |-> HTML_ENTITIES[entity_content], consumed |-> consumed]
       ELSE NoEntity

\* ------------------------------------------------------------------------
\* Inline formatting and the reference resolver
\* ------------------------------------------------------------------------
\* The RefCell fields pending_citations and next_citation_number are
\* written during rendering, so every renderer takes them as st = [cits,
\* next] and returns [out, cits, next].  defs is link_definitions.
RECURSIVE format_inline_at(_, _, _, _)
RECURSIVE render_reference_link(_, _, _)

format_inline(defs, text, st) ==
    format_inline_at(defs, text, 1, [out |-> <<>>, cits |-> st.cits, next |-> st.next])

\* format!("{pre}{formatted}{post}") around the rendering f.
Around(pre, f, post) == [out |-> pre \o f.out \o post, cits |-> f.cits, next |-> f.next]

\* As render_reference_link, citing a label that is in the ledger already
\* without a new entry.
render_reference_link_once(defs, ref_link, st) ==
    IF normalize_link_label(ref_link.label) \in DOMAIN defs
    THEN Around(Osc8Open(defs[normalize_link_label(ref_link.label)].url) \o LinkStyle,
                format_inline(defs, ref_link.text, st),
                SgrReset \o Osc8Close)
    ELSE IF \E k \in DOMAIN st.cits : st.cits[k][2] = ref_link.label
         THEN Around(<<>>, format_inline(defs, ref_link.text, st),
                     <<"[">> \o NumStr(st.next) \o <<"]">>)
    ELSE Around(<<>>,
                format_inline(defs, ref_link.text,
                              [cits |-> Append(st.cits,
                                               <<st.next, ref_link.label, ref_link.text>>),
                               next |-> st.next + 1]),
                <<"[">> \o NumStr(st.next) \o <<"]">>)

\* As render_reference_link, handing out the citation number without
\* advancing the counter.
render_reference_link_reuse(defs, ref_link, st) ==
    IF normalize_link_label(ref_link.label) \in DOMAIN defs
    THEN Around(Osc8Open(defs[normalize_link_label(ref_link.label)].url) \o LinkStyle,
                format_inline(defs, ref_link.text, st),
                SgrReset \o Osc8Close)
    ELSE \* citation_num = st.next; the counter is advanced and the entry
         \* pushed before the text is formatted
         Around(<<>>,
                format_inline(defs, ref_link.text,
                              [cits |-> Append(st.cits,
                                               <<st.next, ref_link.label, ref_link.text>>),
                               next |-> st.next]),
                <<"[">> \o NumStr(st.next) \o <<"]">>)

\* As render_reference_link, looking the label up as written.
render_reference_link_raw(defs, ref_link, st) ==
    IF ref_link.label \in DOMAIN defs
    THEN Around(Osc8Open(defs[ref_link.label].url) \o LinkStyle,
                format_inline(defs, ref_link.text, st),
                SgrReset \o Osc8Close)
    ELSE \* citation_num = st.next; the counter is advanced and the entry
         \* pushed before the text is formatted
         Around(<<>>,
                format_inline(defs, ref_link.text,
                              [cits |-> Append(st.cits,
                                               <<st.next, ref_link.label, ref_link.text>>),
                               next |-> st.next + 1]),
                <<"[">> \o NumStr(st.next) \o <<"]">>)

render_reference_link(defs, ref_link, st) ==
    IF normalize_link_label(ref_link.label) \in DOMAIN defs
    THEN Around(Osc8Open(defs[normalize_link_label(ref_link.label)].url) \o LinkStyle,
                format_inline(defs, ref_link.text, st),
                SgrReset \o Osc8Close)
    ELSE \* citation_num = st.next; the counter is advanced and the entry
         \* pushed before the text is formatted
         Around(<<>>,
                format_inline(defs, ref_link.text,
                              [cits |-> Append(st.cits,
                                               <<st.next, ref_link.label, ref_link.text>>),
                               next |-> st.next + 1]),
                <<"[">> \o NumStr(st.next) \o <<"]">>)

\* One emphasis rule of format_inline: the marker opens at i; 0 when the
\* rule does not apply, else the position of the closing marker.
EmphClose(marker, chars, i) ==
    IF i + Len(marker) - 1 <= Len(chars) /\ SubSeq(chars, i, i + Len(marker) - 1) = marker
    THEN find_closing(marker, chars, i + Len(marker))
    ELSE 0

\* The emphasis rules of format_inline in source order (~~ ** * ` __ _):
\* marker and style.
EmphasisRules ==
    << <<(<<"~", "~">>), Sgr(<<"9">>)>>,
       <<(<<"*", "*">>), Sgr(<<"1">>)>>,
       <<(<<"*">>), Sgr(<<"3">>)>>,
       <<(<<BTICK>>), CodeStyle>>,
       <<(<<"_", "_">>), Sgr(<<"1">>)>>,
       <<(<<"_">>), Sgr(<<"3">>)>> >>

\* The first emphasis rule that opens at i and finds its closing marker.
FirstRule(chars, i) ==
    LET hit == {r \in 1..Len(EmphasisRules) : EmphClose(EmphasisRules[r][1], chars, i) # 0}
    IN IF hit = {} THEN 0 ELSE CHOOSE r \in hit : \A q \in hit : r <= q

\* result.push_str(f.out); i = pos; continue, with the ledger as f left it.
InlineAfter(defs, chars, pos, acc, f) ==
    format_inline_at(defs, chars, pos,
                     [out |-> acc.out \o f.out, cits |-> f.cits, next |-> f.next])

\* The body of an emphasis rule whose marker opens at i and closes at end:
\* inline code is copied, any other span is formatted recursively.
InlineSpan(defs, chars, i, acc, marker, style, end) ==
    IF marker = <<BTICK>>
    THEN format_inline_at(defs, chars, end + 1,
             [acc EXCEPT !.out = @ \o CodeStyle \o <<" ">>
                                    \o SubSeq(chars, i + Len(marker), end - 1)
                                    \o <<" ">> \o SgrReset])
    ELSE InlineAfter(defs, chars, end + Len(marker), acc,
             Around(style,
                    format_inline(defs, SubSeq(chars, i + Len(marker), end - 1),
                                  [cits |-> acc.cits, next |-> acc.next]),
                    SgrReset))

\* The characters at which a rule of format_inline can apply; any other
\* character is pushed as it is.
RuleStarts == {"!", "[", "~", "*", BTICK, "_", "<", "&"}

\* The last character of the run of characters from i on that start no rule.
PlainEnd(chars, i) ==
    IF FindFrom(chars, RuleStarts, i) = 0 THEN Len(chars)
    ELSE FindFrom(chars, RuleStarts, i) - 1

\* The rules of format_inline at i in source order, given what the parsers
\* found there: image, link, reference link, emphasis rule r0, HTML tag,
\* HTML entity.
InlineRules(defs, chars, i, acc, img, link, ref, r0, html, entity) ==
    IF img.ok
    THEN format_inline_at(defs, chars, img.end_pos,
             [acc EXCEPT !.out = @ \o render_image(img.alt, img.src)])
    ELSE IF link.ok
    THEN InlineAfter(defs, chars, link.end_pos, acc,
             Around(Osc8Open(link.url) \o LinkStyle,
                    format_inline(defs, link.text, [cits |-> acc.cits, next |-> acc.next]),
                    SgrReset \o Osc8Close))
    ELSE IF ref.ok
    THEN InlineAfter(defs, chars, ref.end_pos, acc,
             render_reference_link(defs, ref, [cits |-> acc.cits, next |-> acc.next]))
    ELSE IF r0 # 0
    THEN InlineSpan(defs, chars, i, acc, EmphasisRules[r0][1], EmphasisRules[r0][2],
                    EmphClose(EmphasisRules[r0][1], chars, i))
    ELSE IF html[1]
    THEN format_inline_at(defs, chars, html[2], acc)
    ELSE IF entity.ok
    THEN format_inline_at(defs, chars, i + entity.consumed,
             [acc EXCEPT !.out = Append(@, entity.decoded)])
    ELSE format_inline_at(defs, chars, i + 1, [acc EXCEPT !.out = Append(@, chars[i])])

format_inline_at(defs, chars, i, acc) ==
    IF i > Len(chars) THEN acc
    ELSE IF chars[i] \notin RuleStarts
    THEN format_inline_at(defs, chars, PlainEnd(chars, i) + 1,
             [acc EXCEPT !.out = @ \o SubSeq(chars, i, PlainEnd(chars, i))])
    ELSE InlineRules(defs, chars, i, acc,
             IF chars[i] = "!" THEN parse_image(chars, i) ELSE NoImage,
             IF chars[i] = "[" THEN parse_link(chars, i) ELSE NoLink,
             IF chars[i] = "[" THEN parse_reference_link(chars, i) ELSE NoRef,
             FirstRule(chars, i),
             IF chars[i] = "<" THEN parse_html_tag(chars, i) ELSE <<FALSE, 0>>,
             decode_html_entity(chars, i))

\* ------------------------------------------------------------------------
\* Block renderers
\* ------------------------------------------------------------------------
\* Columns of the terminal as term_size::dimensions() reports them
TermWidth == 4
\* StreamingParser.width, the wrapping width given to with_width
Width == 12

\* str::replace
RECURSIVE Replace(_, _, _)
Replace(s, pat, rep) ==
    LET k == find_closing(pat, s, 1)
    IN IF k = 0 THEN s
       ELSE TakeN(s, k - 1) \o rep \o Replace(DropN(s, k + Len(pat) - 1), pat, rep)

\* format_inline over a sequence of texts in order, threading the ledger:
\* acc and the result are [outs, cits, next].
Formatted(acc, f) == [outs |-> Append(acc.outs, f.out), cits |-> f.cits, next |-> f.next]

RECURSIVE FormatEach(_, _, _)
FormatEach(defs, texts, acc) ==
    IF texts = <<>> THEN acc
    ELSE FormatEach(defs, Tail(texts),
                    Formatted(acc, format_inline(defs, Head(texts),
                                                 [cits |-> acc.cits, next |-> acc.next])))

HeadingOut(level, f) ==
    [cits |-> f.cits, next |-> f.next,
     out |-> HeadingStyle \o Repeat(<<"#">>, level) \o <<" ">>
             \o Replace(f.out, SgrReset, SgrReset \o HeadingStyle)
             \o SgrReset \o <<NL, NL>>]

format_heading(defs, level, text, st) == HeadingOut(level, format_inline(defs, text, st))

format_horizontal_rule ==
    Sgr(<<"2">>) \o Repeat(<<BOXH>>, TermWidth) \o SgrReset \o <<NL, NL>>

\* The text of a paragraph before inline formatting: lines joined by a
\* space, or by a newline after a hard break.
RECURSIVE ParagraphText(_, _)
ParagraphText(lines, i) ==
    IF i > Len(lines) THEN <<>>
    ELSE LET line == lines[i]
             has_hard_break == EndsWith(line, <<" ", " ">>) \/ EndsWith(line, <<BSLASH>>)
             trimmed == IF EndsWith(line, <<BSLASH>>) THEN TakeN(line, Len(line) - 1)
                        ELSE TrimEnd(line)
             sep == IF i = Len(lines) THEN <<>>
                    ELSE IF has_hard_break THEN <<NL>> ELSE <<" ">>
         IN trimmed \o sep \o ParagraphText(lines, i + 1)

\* format_paragraph behind format_inline: every segment between hard
\* breaks is wrapped on its own.
ParagraphOut(f) ==
    [cits |-> f.cits, next |-> f.next,
     out |-> Join([k \in 1..Len(SplitOn(f.out, NL)) |->
                     wrap_text(SplitOn(f.out, NL)[k], <<>>, <<>>, Width)],
                  <<NL>>) \o <<NL, NL>>]

\* As format_paragraph, joining the lines as they are.
format_paragraph_untrimmed(defs, lines, st) ==
    ParagraphOut(format_inline(defs, Join(lines, <<" ">>), st))

format_paragraph(defs, lines, st) ==
    ParagraphOut(format_inline(defs, ParagraphText(lines, 1), st))

\* The Highlighter collaborator (syntect): one escaped line per code line.
\* Its colours are abstracted to one foreground sequence before the text.
format_code_block(lines, info) ==
    Concat([k \in 1..Len(lines) |-> <<" ", " ", " ", " ">> \o Sgr(<<"3", "8">>) \o lines[k] \o <<NL>>])
    \o SgrReset \o <<NL>>

\* The content of a list item behind its marker.
ListContent(item) ==
    LET trimmed == TrimStart(item)
        dot_pos == find_closing(<<".", " ">>, trimmed, 1)
    IN IF StartsWith(trimmed, <<"-", " ">>) \/ StartsWith(trimmed, <<"+", " ">>)
          \/ StartsWith(trimmed, <<"*", " ">>)
       THEN DropN(trimmed, 2)
       ELSE IF dot_pos # 0 THEN DropN(trimmed, dot_pos + 1)
       ELSE trimmed

\* The item loop of format_list; counters maps a nesting level to the last
\* number used on it.
RECURSIVE ListLines(_, _, _, _)

\* The item loop with one counter for all nesting levels
ListLines_one_counter(items, formatted, k, counters) ==
    IF k > Len(items) THEN <<>>
    ELSE LET nesting_level == items[k][1] \div 4
             indent == Repeat(<<" ", " ">>, nesting_level)
             counter == counters[nesting_level] + 1
         IN IF items[k][2] = "Unordered"
            THEN wrap_text(formatted[k], indent \o <<" ", " ", "U+2022", " ">>,
                           indent \o <<" ", " ", " ", " ">>, Width)
                 \o <<NL>> \o ListLines(items, formatted, k + 1, counters)
            ELSE wrap_text(formatted[k],
                           indent \o <<" ", " ">> \o NumStr(counter) \o <<".", " ">>,
                           indent \o <<" ", " ">> \o Repeat(<<" ">>, Len(NumStr(counter)))
                                  \o <<" ", " ">>, Width)
                 \o <<NL>>
                 \o ListLines(items, formatted, k + 1, [n \in 0..3 |-> counter])

ListLines(items, formatted, k, counters) ==
    IF k > Len(items) THEN <<>>
    ELSE LET nesting_level == items[k][1] \div 4
             indent == Repeat(<<" ", " ">>, nesting_level)
             counter == counters[nesting_level] + 1
         IN IF items[k][2] = "Unordered"
            THEN wrap_text(formatted[k], indent \o <<" ", " ", "U+2022", " ">>,
                           indent \o <<" ", " ", " ", " ">>, Width)
                 \o <<NL>> \o ListLines(items, formatted, k + 1, counters)
            ELSE wrap_text(formatted[k],
                           indent \o <<" ", " ">> \o NumStr(counter) \o <<".", " ">>,
                           indent \o <<" ", " ">> \o Repeat(<<" ">>, Len(NumStr(counter)))
                                  \o <<" ", " ">>, Width)
                 \o <<NL>>
                 \o ListLines(items, formatted, k + 1,
                              [counters EXCEPT ![nesting_level] = counter])

ListOut(items, f) ==
    [cits |-> f.cits, next |-> f.next,
     out |-> ListLines(items, f.outs, 1, [n \in 0..3 |-> 0]) \o <<NL>>]

format_list(defs, items, st) ==
    ListOut(items, FormatEach(defs, [k \in 1..Len(items) |-> ListContent(items[k][3])],
                              [outs |-> <<>>, cits |-> st.cits, next |-> st.next]))

align_cell(content, width, alignment) ==
    LET visible_len == Len(strip_ansi(content))
        padding == width - visible_len
        left_pad == padding \div 2
    IN IF visible_len >= width THEN content
       ELSE IF alignment = "Left" THEN content \o Repeat(<<" ">>, padding)
       ELSE IF alignment = "Right" THEN Repeat(<<" ">>, padding) \o content
       ELSE Repeat(<<" ">>, left_pad) \o content \o Repeat(<<" ">>, padding - left_pad)

Max(a, b) == IF a >= b THEN a ELSE b

RECURSIVE MaxOf(_)
MaxOf(ns) == IF ns = <<>> THEN 0 ELSE Max(Head(ns), MaxOf(Tail(ns)))

\* A border line of format_table
TableBorder(col_widths, left, mid, right) ==
    <<left>>
    \o Concat([i \in 1..Len(col_widths) |->
                  Repeat(<<BOXH>>, col_widths[i] + 2)
                  \o (IF i < Len(col_widths) THEN <<mid>> ELSE <<>>)])
    \o <<right, NL>>

\* One row of format_table: the n cells behind position first of the
\* formatted cells.
TableLine(cells, first, n, col_widths, alignments) ==
    <<BOXV>>
    \o Concat([i \in 1..n |->
                  <<" ">>
                  \o align_cell(cells[first + i], col_widths[i],
                                IF i <= Len(alignments) THEN alignments[i] ELSE "Left")
                  \o <<" ", BOXV>>])
    \o <<NL>>

\* The widths of the columns of format_table: the widest raw cell of each
\* column, and 3 at least.
ColWidths(header, rows, num_cols) ==
    [i \in 1..num_cols |->
        Max(3, Max(IF i <= Len(header) THEN Len(strip_ansi(header[i])) ELSE 0,
                   MaxOf([r \in 1..Len(rows) |->
                            IF i <= Len(rows[r]) THEN Len(strip_ansi(rows[r][i]))
                            ELSE 0])))]

TableOut(header, alignments, rows, num_cols, col_widths, f) ==
    [cits |-> f.cits, next |-> f.next,
     out |-> TableBorder(col_widths, "U+250C", "U+252C", "U+2510")
             \o TableLine(f.outs, 0, Len(header), col_widths, alignments)
             \o TableBorder(col_widths, "U+251C", "U+253C", "U+2524")
             \o Concat([r \in 1..Len(rows) |->
                           TableLine(f.outs, Len(header) + (r - 1) * num_cols,
                                     num_cols, col_widths, alignments)])
             \o TableBorder(col_widths, "U+2514", "U+2534", "U+2518") \o <<NL>>]

\* The cells format_table formats, in order: the header, then every row
\* filled up to num_cols cells.
TableTexts(header, rows, num_cols) ==
    header \o Concat([r \in 1..Len(rows) |->
                        [i \in 1..num_cols |->
                            IF i <= Len(rows[r]) THEN rows[r][i] ELSE <<>>]])

TableOf(defs, header, alignments, rows, st, num_cols) ==
    TableOut(header, alignments, rows, num_cols, ColWidths(header, rows, num_cols),
             FormatEach(defs, TableTexts(header, rows, num_cols),
                        [outs |-> <<>>, cits |-> st.cits, next |-> st.next]))

format_table(defs, header, alignments, rows, st) ==
    TableOf(defs, header, alignments, rows, st,
            Max(Len(header), MaxOf([r \in 1..Len(rows) |-> Len(rows[r])])))

QuoteLine(text, prefix) == wrap_text(text, prefix, prefix, Width) \o <<NL>>

QuoteOut(lines, f) ==
    [cits |-> f.cits, next |-> f.next,
     out |-> Concat([k \in 1..Len(lines) |->
                       QuoteLine(f.outs[k], Repeat(<<" ", BOXV, " ">>, lines[k][1]))])
             \o <<NL>>]

format_blockquote(defs, lines, st) ==
    QuoteOut(lines, FormatEach(defs, [k \in 1..Len(lines) |-> lines[k][2]],
                               [outs |-> <<>>, cits |-> st.cits, next |-> st.next]))

\* ------------------------------------------------------------------------
\* The parser: ParserState, BlockBuilder and the handlers of process_line
\* ------------------------------------------------------------------------
\* ParserState and BlockBuilder are records tagged by kind:
\*   state:  Ready | InParagraph | InCodeBlock{info, fence, indent_offset}
\*           | InList | InListAfterBlank | InTable | InBlockquote{nesting_level}
\*   block:  None | Paragraph{lines} | CodeBlock{lines, info} | List{items}
\*           | Table{header, alignments, rows}
\*           | Blockquote{lines, current_nesting}
Ready == [kind |-> "Ready"]
NoBlock == [kind |-> "None"]

\* StreamingParser::new / with_width
NewParser ==
    [buffer |-> <<>>, state |-> Ready, current_block |-> NoBlock,
     link_definitions |-> [l \in {} |-> 0],
     pending_citations |-> <<>>, next_citation_number |-> 1,
     prefetched |-> <<>>]

\* The field prefetched of the parser is history: the URL lists the call in
\* progress has handed to prefetch_images.
\* A handler returns the parser it leaves behind, its emissions in the
\* order they stand in the returned String (<<>> is None), and whether it
\* panicked.  An emission notes whether its text renders the builder
\* ("block") or only the line being processed ("line").
Result(p, em) == [p |-> p, em |-> em, panic |-> FALSE]
Panicked(p) == [p |-> p, em |-> <<>>, panic |-> TRUE]
Ledger(p) == [cits |-> p.pending_citations, next |-> p.next_citation_number]
WithLedger(p, f) ==
    [p EXCEPT !.pending_citations = f.cits, !.next_citation_number = f.next]
Emission(of, text) == <<[of |-> of, text |-> text]>>

\* The match of emit_current_block over the builder taken out of the parser.
RenderBlock(block, p1) ==
    IF block.kind = "Paragraph"
    THEN format_paragraph(p1.link_definitions, block.lines, Ledger(p1))
    ELSE IF block.kind = "CodeBlock"
         THEN [out |-> format_code_block(block.lines, block.info),
               cits |-> p1.pending_citations, next |-> p1.next_citation_number]
    ELSE IF block.kind = "List"
         THEN format_list(p1.link_definitions, block.items, Ledger(p1))
    ELSE IF block.kind = "Table"
         THEN format_table(p1.link_definitions, block.header, block.alignments,
                           block.rows, Ledger(p1))
    ELSE format_blockquote(p1.link_definitions, block.lines, Ledger(p1))

\* extract_image_urls from position i.  The lines of this model hold no
\* "<img" tag, so the tag branch pushes nothing.
RECURSIVE ImageUrlsFrom(_, _)
ImageUrlsFrom(chars, i) ==
    LET k == FindFrom(chars, {"!", "["}, i)
        img == parse_image(chars, k)
        link == parse_link(chars, k)
    IN IF k = 0 THEN <<>>
       ELSE IF chars[k] = "!" /\ img.ok THEN <<img.src>> \o ImageUrlsFrom(chars, img.end_pos)
       ELSE IF chars[k] = "[" /\ link.ok
            THEN ImageUrlsFrom(link.text, 1) \o ImageUrlsFrom(chars, link.end_pos)
       ELSE ImageUrlsFrom(chars, k + 1)

extract_image_urls(text) == ImageUrlsFrom(text, 1)

extract_block_text(block) ==
    IF block.kind = "Paragraph" THEN Join(block.lines, <<NL>>)
    ELSE IF block.kind = "List"
         THEN Join([k \in 1..Len(block.items) |-> block.items[k][3]], <<NL>>)
    ELSE IF block.kind = "Table"
         THEN Join(block.header, <<NL>>)
              \o Concat([r \in 1..Len(block.rows) |-> <<NL>> \o Join(block.rows[r], <<NL>>)])
    ELSE IF block.kind = "Blockquote"
         THEN Join([k \in 1..Len(block.lines) |-> block.lines[k][2]], <<NL>>)
    ELSE <<>>

\* The URL lists emit_current_block hands to prefetch_images.
BlockUrls(block) ==
    IF image_protocol = "None" \/ extract_image_urls(extract_block_text(block)) = <<>>
    THEN <<>>
    ELSE <<extract_image_urls(extract_block_text(block))>>

\* The handler returns the rendered text f.out, with the ledger as the
\* rendering left it.
Rendered(p1, f, of) == Result(WithLedger(p1, f), Emission(of, f.out))

\* emit_current_block once block is taken out and p1 is the parser left.
EmitBlock(block, p1) ==
    IF block.kind = "None" THEN Result(p1, <<>>)
    ELSE Rendered(p1, RenderBlock(block, p1), "block")

\* As emit_current_block, leaving the state as it was.
emit_keep_state(p) ==
    EmitBlock(p.current_block, [p EXCEPT !.current_block = NoBlock,
                                         !.prefetched = @ \o BlockUrls(p.current_block)])

emit_current_block(p) ==
    EmitBlock(p.current_block, [p EXCEPT !.current_block = NoBlock, !.state = Ready,
                                         !.prefetched = @ \o BlockUrls(p.current_block)])

\* HashMap::insert: the last writer wins
insert(map, key, value) == [k \in DOMAIN map \cup {key} |-> IF k = key THEN value ELSE map[k]]

\* HashMap::entry(key).or_insert(value): the first writer wins
or_insert(map, key, value) == IF key \in DOMAIN map THEN map ELSE map @@ (key :> value)

handle_ready_state(p, line) ==
    LET trimmed == TrimEndNl(line)
        comment == is_html_comment_line(trimmed)
        level == parse_atx_heading(trimmed)
        fence == parse_code_fence(trimmed)
        nesting_level == parse_blockquote_marker(trimmed)
        item == parse_list_item(trimmed)
        def == parse_link_definition(trimmed)
    IN IF trimmed = <<>> THEN Result(p, <<>>)
       ELSE IF comment = "panic" THEN Panicked(p)
       ELSE IF comment = "true" THEN Result(p, <<>>)
       ELSE IF level > 0
            THEN Rendered(p, format_heading(p.link_definitions, level,
                                            TrimStart(DropN(trimmed, level)), Ledger(p)),
                          "line")
       ELSE IF fence.ok
            THEN Result([p EXCEPT
                           !.state = [kind |-> "InCodeBlock", info |-> fence.info,
                                      fence |-> fence.fence, indent_offset |-> fence.indent],
                           !.current_block = [kind |-> "CodeBlock", lines |-> <<>>,
                                              info |-> fence.info]], <<>>)
       ELSE IF nesting_level > 0
            THEN Result([p EXCEPT
                           !.state = [kind |-> "InBlockquote", nesting_level |-> nesting_level],
                           !.current_block =
                               [kind |-> "Blockquote",
                                lines |-> <<<<nesting_level,
                                              strip_blockquote_markers(trimmed, nesting_level)>>>>,
                                current_nesting |-> nesting_level]], <<>>)
       ELSE IF is_horizontal_rule(trimmed)
            THEN Result(p, Emission("line", format_horizontal_rule))
       ELSE IF item.ok
            THEN Result([p EXCEPT
                           !.state = [kind |-> "InList"],
                           !.current_block = [kind |-> "List",
                                              items |-> <<<<item.indent, item.type, trimmed>>>>]],
                        <<>>)
       ELSE IF def.ok
            THEN Result([p EXCEPT !.link_definitions =
                            or_insert(@, normalize_link_label(def.label),
                                      [url |-> def.url, title |-> def.title])], <<>>)
       ELSE Result([p EXCEPT
                      !.state = [kind |-> "InParagraph"],
                      !.current_block = [kind |-> "Paragraph", lines |-> <<trimmed>>]], <<>>)

\* As Combined, with the two emissions joined in the wrong order.
Reversed(e, n) == [em |-> n.em \o e.em, p |-> n.p, panic |-> n.panic]

\* The two emissions of one line as they stand in the returned String:
\* e of emit_current_block, then n of the Ready rules.
Combined(e, n) == [em |-> e.em \o n.em, p |-> n.p, panic |-> n.panic]

\* The line goes through the Ready rules after the emission e.
ReadyAfter(e, line) == Combined(e, handle_ready_state(e.p, line))

\* As handle_in_paragraph, returning the paragraph so far whenever a line
\* is appended to it.
handle_in_paragraph_eager(p, line) ==
    LET trimmed == TrimEndNl(line)
        level == parse_setext_underline(trimmed)
        block == p.current_block
        is_para == block.kind = "Paragraph"
    IN IF trimmed = <<>> THEN emit_current_block(p)
       ELSE IF level > 0 /\ is_para
            THEN Rendered([p EXCEPT !.state = Ready, !.current_block = NoBlock],
                          format_heading(p.link_definitions, level,
                                         Join(block.lines, <<" ">>), Ledger(p)),
                          "block")
       ELSE IF is_para /\ Len(block.lines) = 1 /\ is_table_delimiter_row(trimmed) = "panic"
            THEN Panicked(p)
       ELSE IF is_para /\ Len(block.lines) = 1 /\ is_table_delimiter_row(trimmed) = "true"
            THEN Result([p EXCEPT
                           !.current_block = [kind |-> "Table",
                                              header |-> parse_table_row(block.lines[1]),
                                              alignments |-> parse_alignments(trimmed),
                                              rows |-> <<>>],
                           !.state = [kind |-> "InTable"]], <<>>)
       ELSE IF is_para
            THEN Rendered([p EXCEPT !.current_block.lines = Append(@, trimmed)],
                          format_paragraph(p.link_definitions, Append(block.lines, trimmed),
                                           Ledger(p)),
                          "block")
       ELSE Result(p, <<>>)

\* As handle_in_paragraph, promoting the builder to a table without
\* changing the state.
handle_in_paragraph_no_state(p, line) ==
    LET trimmed == TrimEndNl(line)
        level == parse_setext_underline(trimmed)
        block == p.current_block
        is_para == block.kind = "Paragraph"
    IN IF trimmed = <<>> THEN emit_current_block(p)
       ELSE IF level > 0 /\ is_para
            THEN Rendered([p EXCEPT !.state = Ready, !.current_block = NoBlock],
                          format_heading(p.link_definitions, level,
                                         Join(block.lines, <<" ">>), Ledger(p)),
                          "block")
       ELSE IF is_para /\ Len(block.lines) = 1 /\ is_table_delimiter_row(trimmed) = "panic"
            THEN Panicked(p)
       ELSE IF is_para /\ Len(block.lines) = 1 /\ is_table_delimiter_row(trimmed) = "true"
            THEN Result([p EXCEPT
                           !.current_block = [kind |-> "Table",
                                              header |-> parse_table_row(block.lines[1]),
                                              alignments |-> parse_alignments(trimmed),
                                              rows |-> <<>>]], <<>>)
       ELSE IF is_para
            THEN Result([p EXCEPT !.current_block.lines = Append(@, trimmed)], <<>>)
       ELSE Result(p, <<>>)

handle_in_paragraph(p, line) ==
    LET trimmed == TrimEndNl(line)
        level == parse_setext_underline(trimmed)
        block == p.current_block
        is_para == block.kind = "Paragraph"
    IN IF trimmed = <<>> THEN emit_current_block(p)
       ELSE IF level > 0 /\ is_para
            THEN Rendered([p EXCEPT !.state = Ready, !.current_block = NoBlock],
                          format_heading(p.link_definitions, level,
                                         Join(block.lines, <<" ">>), Ledger(p)),
                          "block")
       ELSE IF is_para /\ Len(block.lines) = 1 /\ is_table_delimiter_row(trimmed) = "panic"
            THEN Panicked(p)
       ELSE IF is_para /\ Len(block.lines) = 1 /\ is_table_delimiter_row(trimmed) = "true"
            THEN Result([p EXCEPT
                           !.current_block = [kind |-> "Table",
                                              header |-> parse_table_row(block.lines[1]),
                                              alignments |-> parse_alignments(trimmed),
                                              rows |-> <<>>],
                           !.state = [kind |-> "InTable"]], <<>>)
       ELSE IF is_para
            THEN Result([p EXCEPT !.current_block.lines = Append(@, trimmed)], <<>>)
       ELSE Result(p, <<>>)

handle_in_code_block(p, line) ==
    LET trimmed == TrimEndNl(line)
        fence == p.state.fence
        indent_offset == p.state.indent_offset
        line_trimmed == TrimStart(trimmed)
        strip == indent_offset > 0 /\ Bytes(trimmed) >= indent_offset
        cut == CharBoundary(trimmed, indent_offset)
    IN IF p.state.kind # "InCodeBlock" THEN Result(p, <<>>)
       ELSE IF StartsWith(line_trimmed, fence) /\ Trim(line_trimmed) = Trim(fence)
            THEN emit_current_block(p)
       ELSE IF p.current_block.kind # "CodeBlock" THEN Result(p, <<>>)
       ELSE IF strip /\ cut = -1 THEN Panicked(p)
       ELSE Result([p EXCEPT !.current_block.lines =
                       Append(@, IF strip THEN DropN(trimmed, cut) ELSE trimmed)], <<>>)

\* As handle_in_list, for lists that a blank line ends.
InListLine_blank_ends(p, line, e) ==
    LET trimmed == TrimEndNl(line)
        item == parse_list_item(trimmed)
        leading_spaces == LeadingSpaces(trimmed)
        cut == CharBoundary(trimmed, 4)
        fence == parse_code_fence(DropN(trimmed, cut))
    IN IF trimmed = <<>>
       THEN e
       ELSE IF is_horizontal_rule(trimmed)
            THEN Result(e.p, e.em \o Emission("line", format_horizontal_rule))
       ELSE IF item.ok
            THEN IF p.current_block.kind = "List"
                 THEN Result([p EXCEPT !.current_block.items =
                                 Append(@, <<item.indent, item.type, trimmed>>)], <<>>)
                 ELSE Result(p, <<>>)
       ELSE IF leading_spaces >= 4
            THEN IF cut = -1 THEN Panicked(p)
                 ELSE IF fence.ok
                      THEN Result([e.p EXCEPT
                                     !.state = [kind |-> "InCodeBlock", info |-> fence.info,
                                                fence |-> fence.fence,
                                                indent_offset |-> 4 + fence.indent],
                                     !.current_block = [kind |-> "CodeBlock", lines |-> <<>>,
                                                        info |-> fence.info]], e.em)
                 ELSE Result(p, <<>>)
       ELSE ReadyAfter(e, line)

\* handle_in_list, where e is what emit_current_block() returns on the
\* paths that call it.
InListLine(p, line, e) ==
    LET trimmed == TrimEndNl(line)
        item == parse_list_item(trimmed)
        leading_spaces == LeadingSpaces(trimmed)
        cut == CharBoundary(trimmed, 4)
        fence == parse_code_fence(DropN(trimmed, cut))
    IN IF trimmed = <<>>
       THEN Result([p EXCEPT !.state = [kind |-> "InListAfterBlank"]], <<>>)
       ELSE IF is_horizontal_rule(trimmed)
            THEN Result(e.p, e.em \o Emission("line", format_horizontal_rule))
       ELSE IF item.ok
            THEN IF p.current_block.kind = "List"
                 THEN Result([p EXCEPT !.current_block.items =
                                 Append(@, <<item.indent, item.type, trimmed>>)], <<>>)
                 ELSE Result(p, <<>>)
       ELSE IF leading_spaces >= 4
            THEN IF cut = -1 THEN Panicked(p)
                 ELSE IF fence.ok
                      THEN Result([e.p EXCEPT
                                     !.state = [kind |-> "InCodeBlock", info |-> fence.info,
                                                fence |-> fence.fence,
                                                indent_offset |-> 4 + fence.indent],
                                     !.current_block = [kind |-> "CodeBlock", lines |-> <<>>,
                                                        info |-> fence.info]], e.em)
                 ELSE Result(p, <<>>)
       ELSE ReadyAfter(e, line)

handle_in_list(p, line) == InListLine(p, line, emit_current_block(p))

\* As handle_in_list_after_blank, continuing the list with an item of any
\* type.
AfterBlankLine_any_kind(p, line, e) ==
    LET trimmed == TrimEndNl(line)
        item == parse_list_item(trimmed)
        block == p.current_block
        same_list == \/ /\ item.ok
                        /\ block.kind = "List"
                        /\ block.items # <<>>
                     \/ ~item.ok /\ LeadingSpaces(trimmed) >= 4 /\ trimmed # <<>>
    IN IF same_list THEN handle_in_list([p EXCEPT !.state = [kind |-> "InList"]], line)
       ELSE IF trimmed # <<>> THEN ReadyAfter(e, line)
       ELSE e

\* handle_in_list_after_blank, where e is what emit_current_block()
\* returns on the paths that call it.
AfterBlankLine(p, line, e) ==
    LET trimmed == TrimEndNl(line)
        item == parse_list_item(trimmed)
        block == p.current_block
        \* an item of the type of the list's first item, or an indented
        \* line that is no item, goes back to InList
        same_list == \/ /\ item.ok
                        /\ block.kind = "List"
                        /\ block.items # <<>>
                        /\ block.items[1][2] = item.type
                     \/ ~item.ok /\ LeadingSpaces(trimmed) >= 4 /\ trimmed # <<>>
    IN IF same_list THEN handle_in_list([p EXCEPT !.state = [kind |-> "InList"]], line)
       ELSE IF trimmed # <<>> THEN ReadyAfter(e, line)
       ELSE e

handle_in_list_after_blank(p, line) == AfterBlankLine(p, line, emit_current_block(p))

\* As handle_in_table, for tables that only a blank line ends.
InTableLine_blank_only(p, line, e) ==
    LET trimmed == TrimEndNl(line)
    IN IF trimmed = <<>> THEN e
       ELSE IF p.current_block.kind = "Table"
            THEN Result([p EXCEPT !.current_block.rows =
                            Append(@, parse_table_row(trimmed))], <<>>)
       ELSE Result(p, <<>>)

\* handle_in_table, where e is what emit_current_block() returns on the
\* paths that call it.
InTableLine(p, line, e) ==
    LET trimmed == TrimEndNl(line)
    IN IF trimmed = <<>> THEN e
       ELSE IF "|" \notin Range(trimmed) THEN ReadyAfter(e, line)
       ELSE IF p.current_block.kind = "Table"
            THEN Result([p EXCEPT !.current_block.rows =
                            Append(@, parse_table_row(trimmed))], <<>>)
       ELSE Result(p, <<>>)

handle_in_table(p, line) == InTableLine(p, line, emit_current_block(p))

\* As handle_in_blockquote, recording the definitions among the lines
\* without marker.
handle_in_blockquote_defining(p, line) ==
    LET trimmed == TrimEndNl(line)
        nesting_level == parse_blockquote_marker(trimmed)
        content == strip_blockquote_markers(trimmed, nesting_level)
        block == p.current_block
    IN IF trimmed = <<>> THEN emit_current_block(p)
       ELSE IF nesting_level > 0
            THEN IF block.kind = "Blockquote"
                 THEN Result([p EXCEPT
                                !.state = IF @.kind = "InBlockquote"
                                          THEN [@ EXCEPT !.nesting_level = nesting_level]
                                          ELSE @,
                                !.current_block.lines = Append(@, <<nesting_level, content>>),
                                !.current_block.current_nesting = nesting_level], <<>>)
                 ELSE Result(p, <<>>)
       ELSE IF block.kind = "Blockquote" /\ parse_link_definition(trimmed) # NoDef
            THEN Result([p EXCEPT
                           !.link_definitions =
                               or_insert(@, normalize_link_label(parse_link_definition(trimmed).label),
                                         [url |-> parse_link_definition(trimmed).url,
                                          title |-> parse_link_definition(trimmed).title]),
                           !.current_block.lines =
                               Append(@, <<block.current_nesting, trimmed>>)], <<>>)
       ELSE IF block.kind = "Blockquote"
            THEN Result([p EXCEPT !.current_block.lines =
                            Append(@, <<block.current_nesting, trimmed>>)], <<>>)
       ELSE Result(p, <<>>)

\* As handle_in_blockquote, leaving the nesting level of the state alone.
handle_in_blockquote_state_kept(p, line) ==
    LET trimmed == TrimEndNl(line)
        nesting_level == parse_blockquote_marker(trimmed)
        content == strip_blockquote_markers(trimmed, nesting_level)
        block == p.current_block
    IN IF trimmed = <<>> THEN emit_current_block(p)
       ELSE IF nesting_level > 0
            THEN IF block.kind = "Blockquote"
                 THEN Result([p EXCEPT
                                !.current_block.lines = Append(@, <<nesting_level, content>>),
                                !.current_block.current_nesting = nesting_level], <<>>)
                 ELSE Result(p, <<>>)
       ELSE IF block.kind = "Blockquote"
            THEN Result([p EXCEPT !.current_block.lines =
                            Append(@, <<block.current_nesting, trimmed>>)], <<>>)
       ELSE Result(p, <<>>)

handle_in_blockquote(p, line) ==
    LET trimmed == TrimEndNl(line)
        nesting_level == parse_blockquote_marker(trimmed)
        content == strip_blockquote_markers(trimmed, nesting_level)
        block == p.current_block
    IN IF trimmed = <<>> THEN emit_current_block(p)
       ELSE IF nesting_level > 0
            THEN IF block.kind = "Blockquote"
                 THEN Result([p EXCEPT
                                !.state = IF @.kind = "InBlockquote"
                                          THEN [@ EXCEPT !.nesting_level = nesting_level]
                                          ELSE @,
                                !.current_block.lines = Append(@, <<nesting_level, content>>),
                                !.current_block.current_nesting = nesting_level], <<>>)
                 ELSE Result(p, <<>>)
       ELSE IF block.kind = "Blockquote"
            THEN Result([p EXCEPT !.current_block.lines =
                            Append(@, <<block.current_nesting, trimmed>>)], <<>>)
       ELSE Result(p, <<>>)

process_line(p, line) ==
    IF p.state.kind = "Ready" THEN handle_ready_state(p, line)
    ELSE IF p.state.kind = "InParagraph" THEN handle_in_paragraph(p, line)
    ELSE IF p.state.kind = "InCodeBlock" THEN handle_in_code_block(p, line)
    ELSE IF p.state.kind = "InList" THEN handle_in_list(p, line)
    ELSE IF p.state.kind = "InListAfterBlank" THEN handle_in_list_after_blank(p, line)
    ELSE IF p.state.kind = "InTable" THEN handle_in_table(p, line)
    ELSE handle_in_blockquote(p, line)

\* ------------------------------------------------------------------------
\* feed, flush and the bibliography
\* ------------------------------------------------------------------------
References == <<"R", "e", "f", "e", "r", "e", "n", "c", "e", "s">>
Unresolved == <<"(", "u", "n", "r", "e", "s", "o", "l", "v", "e", "d", ")">>

BibliographyHeader ==
    <<NL>> \o HeadingStyle \o <<BOXH, BOXH, BOXH, " ">> \o References
    \o <<" ", BOXH, BOXH, BOXH>> \o SgrReset \o <<NL, NL>>

\* As BibliographyEntry, looking the label up as written.
BibliographyEntryRaw(defs, entry) ==
    LET normalized_label == entry[2]
        head == <<"[">> \o NumStr(entry[1]) \o <<"]", " ">> \o entry[2] \o <<":", " ">>
    IN IF normalized_label \in DOMAIN defs
       THEN LET d == defs[normalized_label]
            IN head \o Hyperlink(d.url, d.url)
               \o (IF d.title # <<>> THEN <<" ", DQUOTE>> \o d.title[1] \o <<DQUOTE>>
                   ELSE <<>>)
               \o <<NL>>
       ELSE head \o Sgr(<<"3", "1">>) \o Unresolved \o SgrReset \o <<NL>>

\* One line of the bibliography for the ledger entry <<num, label, text>>.
BibliographyEntry(defs, entry) ==
    LET normalized_label == normalize_link_label(entry[2])
        head == <<"[">> \o NumStr(entry[1]) \o <<"]", " ">> \o entry[2] \o <<":", " ">>
    IN IF normalized_label \in DOMAIN defs
       THEN LET d == defs[normalized_label]
            IN head \o Hyperlink(d.url, d.url)
               \o (IF d.title # <<>> THEN <<" ", DQUOTE>> \o d.title[1] \o <<DQUOTE>>
                   ELSE <<>>)
               \o <<NL>>
       ELSE head \o Sgr(<<"3", "1">>) \o Unresolved \o SgrReset \o <<NL>>

\* <<>> stands for None.
format_bibliography(p) ==
    LET citations == p.pending_citations
    IN IF citations = <<>> THEN <<>>
       ELSE BibliographyHeader
            \o Concat([k \in 1..Len(citations) |->
                          BibliographyEntry(p.link_definitions, citations[k])])
            \o <<NL>>

\* The progress of the input through process_line, kept beside the parser
\* to name lines: lineno counts the lines processed, open_since is the
\* number of the line that opened the block being built (0: none).  Every
\* emission is stamped with the line its text starts from: the first line
\* of the block for a "block" emission, the processed line otherwise.
NewProgress == [lineno |-> 0, open_since |-> 0]

Stamp(em, g, n) ==
    [k \in 1..Len(em) |->
        [of |-> em[k].of, text |-> em[k].text, at |-> n,
         first |-> IF em[k].of = "block" THEN g.open_since ELSE n]]

Advance(g, r) ==
    [lineno |-> g.lineno + 1,
     open_since |-> IF r.p.current_block.kind = "None" THEN 0
                    ELSE IF g.open_since = 0 \/ r.em # <<>> THEN g.lineno + 1
                    ELSE g.open_since]

\* The while loop of feed over the lines completed in the buffer.  A panic
\* unwinds the call: nothing is returned.
RECURSIVE FeedLoop(_, _, _)

\* process_line returned r for the line taken from the buffer.
FeedStep(g, output, r) ==
    IF r.panic THEN [p |-> r.p, g |-> g, em |-> <<>>, panic |-> TRUE]
    ELSE FeedLoop(r.p, Advance(g, r), output \o Stamp(r.em, g, g.lineno + 1))

FeedLoop(p, g, output) ==
    IF FindChar(p.buffer, NL) = 0 THEN [p |-> p, g |-> g, em |-> output, panic |-> FALSE]
    ELSE FeedStep(g, output,
                  process_line([p EXCEPT !.buffer = DropN(@, FindChar(p.buffer, NL))],
                               TakeN(p.buffer, FindChar(p.buffer, NL))))

\* As feed, replacing the buffer by the chunk instead of appending to it.
feed_overwrite(p, g, chunk) == FeedLoop([p EXCEPT !.buffer = chunk], g, <<>>)

feed(p, g, chunk) == FeedLoop([p EXCEPT !.buffer = @ \o chunk], g, <<>>)

\* The end of flush: r1 is what the partial line returned (g1 the progress
\* behind it), r2 what emit_current_block returned.
FlushEnd(g, r1, g1, r2, bibliography) ==
    [p |-> r2.p, g |-> [g1 EXCEPT !.open_since = 0],
     em |-> Stamp(r1.em, g, g.lineno + 1)
            \o Stamp(r2.em, g1, g1.lineno)
            \o (IF bibliography = <<>> THEN <<>>
                ELSE Stamp(Emission("bibliography", bibliography), g1, g1.lineno + 1)),
     panic |-> FALSE]

FlushBlock(g, r1, g1, r2) == FlushEnd(g, r1, g1, r2, format_bibliography(r2.p))

FlushLine(g, r1, g1) ==
    IF r1.panic THEN [p |-> r1.p, g |-> g, em |-> <<>>, panic |-> TRUE]
    ELSE FlushBlock(g, r1, g1, emit_current_block(r1.p))

FlushPartial(g, r1) == FlushLine(g, r1, Advance(g, r1))

flush(p, g) ==
    IF p.buffer # <<>>
    THEN FlushPartial(g, process_line([p EXCEPT !.buffer = <<>>], p.buffer))
    ELSE FlushLine(g, Result(p, <<>>), g)

\* The text a sequence of emissions stands for
TextOf(em) == Concat([k \in 1..Len(em) |-> em[k].text])

\* ------------------------------------------------------------------------
\* The system: one parser instance, fed a document in chunks, then flushed
\* ------------------------------------------------------------------------
VARIABLES
    buffer, state, current_block, link_definitions, pending_citations,
    next_citation_number,   \* the fields of StreamingParser
    progress,               \* lines processed and first line of the open block
    input,                  \* the text the caller has not fed yet
    fed,                    \* the text fed so far
    output,                 \* the stamped emissions returned so far, in order
    split,                  \* some feed call has returned with a partial line buffered
    phase,                  \* "feeding", "flushed" or "panicked"
    pc,                     \* "idle", or the call ("feed", "flush") waiting in prefetch_images
    workers,                \* the threads of the last batch: [url, running, result]
    rx,                     \* the results sent on the channel and not received yet
    changes                 \* how often the files and servers have changed

vars == <<buffer, state, current_block, link_definitions, pending_citations,
          next_citation_number, progress, input, fed, output, split, phase,
          image_protocol, image_cache, net, pc, workers, rx, changes>>


\* Bounds of the model
MaxLines == 3
MaxChunk == 4

Self ==
    [buffer |-> buffer, state |-> state, current_block |-> current_block,
     link_definitions |-> link_definitions, pending_citations |-> pending_citations,
     next_citation_number |-> next_citation_number, prefetched |-> <<>>]

\* All documents of at most MaxLines lines drawn from lines; the last line
\* may lack its newline.
Documents(lines) ==
    {Concat([k \in 1..Len(d) |-> d[k] \o <<NL>>]) :
        d \in UNION {[1..n -> lines] : n \in 0..MaxLines}}
    \cup
    {Concat([k \in 1..Len(d) |-> d[k] \o (IF k < Len(d) THEN <<NL>> ELSE <<>>)]) :
        d \in UNION {[1..n -> lines] : n \in 1..MaxLines}}

InitParser(docs) ==
    /\ buffer = NewParser.buffer
    /\ state = NewParser.state
    /\ current_block = NewParser.current_block
    /\ link_definitions = NewParser.link_definitions
    /\ pending_citations = NewParser.pending_citations
    /\ next_citation_number = NewParser.next_citation_number
    /\ progress = NewProgress
    /\ input \in docs
    /\ fed = <<>>
    /\ output = <<>>
    /\ split = FALSE
    /\ phase = "feeding"
    /\ image_cache = [u \in {} |-> "png"]
    /\ pc = "idle"
    /\ workers = <<>>
    /\ rx = <<>>
    /\ changes = 0

\* StreamingParser::new(): no image protocol, so nothing is ever fetched
InitWith(docs) ==
    /\ InitParser(docs)
    /\ image_protocol = "None"
    /\ net = [u \in {} |-> "err"]

\* The parser and the bookkeeping after a call that returned r
Returned(r) ==
    /\ buffer' = r.p.buffer
    /\ state' = r.p.state
    /\ current_block' = r.p.current_block
    /\ link_definitions' = r.p.link_definitions
    /\ pending_citations' = r.p.pending_citations
    /\ next_citation_number' = r.p.next_citation_number
    /\ progress' = r.g
    /\ output' = output \o r.em

\* prefetch_images: the URLs that are not cached yet, in order
urls_to_fetch(urls) ==
    LET Uncached(url) == url \notin DOMAIN image_cache
    IN SelectSeq(urls, Uncached)

\* thread::spawn for every URL of the batch; the caller then waits on rx.
Spawn(urls, call) ==
    /\ workers' = [k \in 1..Len(urls) |-> [url |-> urls[k], running |-> TRUE, result |-> "none"]]
    /\ rx' = <<>>
    /\ pc' = call
    /\ UNCHANGED <<buffer, state, current_block, link_definitions, pending_citations,
                   next_citation_number, progress, input, fed, output, split, phase,
                   image_protocol, image_cache, net, changes>>

\* As RxClosed, for a loop that ends as soon as nothing is waiting.
RxDrained == rx = <<>>

\* The loop over rx ends: nothing is waiting and every sender is dropped.
RxClosed == rx = <<>> /\ \A w \in DOMAIN workers : ~workers[w].running

\* A call whose emit_current_block reaches prefetch_images with the URLs of
\* batch, and which returns by the step return.  With URLs to fetch the
\* call spawns the workers and waits; it goes on when the loop over rx has
\* ended, formats the block and returns.  The calls of this model emit at
\* most one block with images each.
Called(call, batch, return) ==
    IF pc = "idle" /\ batch # <<>> THEN Spawn(batch, call)
    ELSE /\ pc \in {"idle", call}
         /\ pc = call => RxClosed
         /\ return
         /\ pc' = "idle"
         /\ workers' = IF pc = "idle" THEN <<>> ELSE workers
         /\ UNCHANGED <<image_protocol, image_cache, net, rx, changes>>

\* The URLs the call that returned r has to fetch
Batch(r) ==
    IF r.panic \/ r.p.prefetched = <<>> THEN <<>> ELSE urls_to_fetch(r.p.prefetched[1])

\* The caller has fed the next n characters and feed returned r.
Fed(n, r) ==
    /\ Returned(r)
    /\ phase' = IF r.panic THEN "panicked" ELSE "feeding"
    /\ split' = (split \/ r.p.buffer # <<>>)
    /\ input' = DropN(input, n)
    /\ fed' = fed \o TakeN(input, n)

FeedCalled(n, r) == Called("feed", Batch(r), Fed(n, r))

\* The caller feeds the next n characters of the input as one chunk.
Feed(n) ==
    /\ phase = "feeding"
    /\ n <= Len(input)
    /\ FeedCalled(n, feed(Self, progress, TakeN(input, n)))

FeedChunk == \E n \in 0..MaxChunk : Feed(n)

\* The caller feeds the input up to and including its next newline (or to
\* its end when no newline is left).
FeedLine ==
    /\ input # <<>>
    /\ Feed(IF FindChar(input, NL) = 0 THEN Len(input) ELSE FindChar(input, NL))

\* The caller flushes at the end of the input.
\* flush returned r.
Flushed(r) ==
    /\ Returned(r)
    /\ phase' = IF r.panic THEN "panicked" ELSE "flushed"
    /\ UNCHANGED <<input, fed, split>>

FlushCalled(r) == Called("flush", Batch(r), Flushed(r))

\* The caller flushes at the end of the input.
Flush ==
    /\ phase = "feeding"
    /\ input = <<>>
    /\ FlushCalled(flush(Self, progress))

\* Lines of the documents fed in arbitrary chunks
ChunkLines ==
    {<<"#", " ", "a">>,
     <<"a">>,
     <<>>,
     <<"-", " ", "a">>,
     <<"-", "-", "-">>,
     <<BTICK, BTICK, BTICK>>,
     <<"[", "a", "]">>,
     <<"[", "a", "]", ":", " ", "u">>,
     <<"<", "!", "-", "-", ">">>}

InitChunk == InitWith(Documents(ChunkLines))
NextChunk == FeedChunk \/ Flush
SpecChunk == InitChunk /\ [][NextChunk]_vars

\* Lines of the documents that exercise the block state machine
BlockLines ==
    {<<"#", " ", "a">>,
     <<"a">>,
     <<>>,
     <<"-", " ", "[", "a", "]">>,
     <<"1", ".", " ", "b">>,
     <<" ", " ", " ", " ", BTICK, BTICK, BTICK>>,
     <<BTICK, BTICK, BTICK>>,
     <<"-", "-", "-">>,
     <<"|", "-", "-", "-", "|">>,
     <<">", "a">>}

InitBlock == InitWith(Documents(BlockLines))
NextLine == FeedLine \/ Flush
SpecBlock == InitBlock /\ [][NextLine]_vars

\* Lines of the documents that exercise the reference resolver
RefLines ==
    {<<"#", " ", "[", "x", "]", "[", "A", "]">>,
     <<"#", " ", "[", "b", "]">>,
     <<"[", "b", "]", "[", "]">>,
     <<"[", "a", "]", ":", " ", "u">>,
     <<"[", "A", "]", ":", " ", "v">>,
     <<>>}

InitRef == InitWith(Documents(RefLines))
SpecRef == InitRef /\ [][NextLine]_vars

\* ------------------------------------------------------------------------
\* Image prefetch: emit_current_block with an image protocol
\* ------------------------------------------------------------------------
\* Worker w: fetch_image_static returns, the result is sent and the thread
\* ends, dropping its sender.
WorkerDone(w) ==
    /\ workers[w].running
    /\ workers' = [workers EXCEPT ![w].running = FALSE,
                                  ![w].result = fetch_image_static(workers[w].url)]
    /\ rx' = Append(rx, <<workers[w].url, fetch_image_static(workers[w].url)>>)
    /\ UNCHANGED <<buffer, state, current_block, link_definitions, pending_citations,
                   next_citation_number, progress, input, fed, output, split, phase,
                   image_protocol, image_cache, net, pc, changes>>

\* One turn of "for (url, result) in rx": an Ok result is inserted.
Receive ==
    /\ pc # "idle"
    /\ rx # <<>>
    /\ image_cache' = IF Head(rx)[2] = "err" THEN image_cache
                      ELSE [u \in DOMAIN image_cache \cup {Head(rx)[1]} |->
                               IF u = Head(rx)[1] THEN Head(rx)[2] ELSE image_cache[u]]
    /\ rx' = Tail(rx)
    /\ UNCHANGED <<buffer, state, current_block, link_definitions, pending_citations,
                   next_citation_number, progress, input, fed, output, split, phase,
                   image_protocol, net, pc, workers, changes>>

\* A file or a server changes what it returns.
MaxNetChanges == 1

NetChange(u, o) ==
    /\ changes < MaxNetChanges
    /\ phase = "feeding"
    /\ o # net[u]
    /\ net' = [net EXCEPT ![u] = o]
    /\ changes' = changes + 1
    /\ UNCHANGED <<buffer, state, current_block, link_definitions, pending_citations,
                   next_citation_number, progress, input, fed, output, split, phase,
                   image_protocol, image_cache, pc, workers, rx>>

ImageUrls == {<<"u">>, <<"v">>}
FetchResults == {"err", "png"}

\* Lines of the documents with images
ImageLines ==
    {<<"!", "[", "a", "]", "(", "u", ")">>,
     <<"!", "[", "a", "]", "(", "u", ")", " ", "!", "[", "b", "]", "(", "v", ")">>,
     <<"!", "[", "a", "]", "(", "u", ")", " ", "!", "[", "b", "]", "(", "u", ")">>,
     <<"#", " ", "!", "[", "a", "]", "(", "v", ")">>,
     <<"-", " ", "!", "[", "a", "]", "(", "u", ")">>,
     <<>>}

\* The documents of at most MaxImageLines of these lines; every line ends
\* with its newline, so flush finds the buffer empty.
MaxImageLines == 2

ImageDocuments ==
    {Concat([k \in 1..Len(d) |-> d[k] \o <<NL>>]) :
        d \in UNION {[1..n -> ImageLines] : n \in 0..MaxImageLines}}

InitImage ==
    /\ InitParser(ImageDocuments)
    /\ image_protocol = "Kitty"
    /\ net \in [ImageUrls -> FetchResults]

NextImage ==
    \/ FeedLine
    \/ Flush
    \/ \E w \in DOMAIN workers : WorkerDone(w)
    \/ Receive
    \/ \E u \in ImageUrls, o \in FetchResults : NetChange(u, o)

SpecImage == InitImage /\ [][NextImage]_vars

\* ------------------------------------------------------------------------
\* The layout functions called on their own (wrap_text is public)
\* ------------------------------------------------------------------------
\* A call of a function on a parser that is left as it was; what the call
\* was given and what it returned are kept as one emission.
Applied(call) ==
    /\ phase = "feeding"
    /\ output = <<>>
    /\ output' = <<call>>
    /\ phase' = "flushed"
    /\ UNCHANGED <<buffer, state, current_block, link_definitions, progress, input, fed,
                   split, image_protocol, image_cache, net, pc, workers, rx, changes>>

\* parser.wrap_text(input, first_indent, cont_indent) of a parser of the given width
WrapText(first_indent, cont_indent, width) ==
    /\ Applied([of |-> "wrap_text", text |-> wrap_text(input, first_indent, cont_indent, width),
                first_indent |-> first_indent, cont_indent |-> cont_indent, width |-> width])
    /\ UNCHANGED <<pending_citations, next_citation_number>>

\* Words of the wrapped texts: plain, styled, wide
WrapWords ==
    {<<"a">>,
     <<"a", "b", "c">>,
     <<"a", "b", "c", "d", "e">>,
     Sgr(<<"1">>) \o <<"a", "b">> \o SgrReset,
     <<CHECK>>,
     <<CHECK, CHECK>>}

MaxWords == 3

\* Up to MaxWords words, each followed by one space, and the texts of
\* whitespace only
WrapTexts ==
    {Concat([k \in 1..Len(ws) |-> ws[k] \o <<" ">>]) :
        ws \in UNION {[1..n -> WrapWords] : n \in 0..MaxWords}}
    \cup {<<" ">>, <<" ", TAB>>}

WrapIndents == {<<>>, <<" ", " ">>, <<" ", BOXV, " ">>}

InitWrap == InitWith(WrapTexts)

NextWrap ==
    \E first_indent \in WrapIndents, cont_indent \in WrapIndents, width \in {TermWidth, Width} :
        WrapText(first_indent, cont_indent, width)

SpecWrap == InitWrap /\ [][NextWrap]_vars

\* parser.format_inline(input) returned f; the citations it recorded stay
\* in the parser.
InlineFormatted(f) ==
    /\ Applied([of |-> "format_inline", text |-> f.out])
    /\ pending_citations' = f.cits
    /\ next_citation_number' = f.next

FormatInline == InlineFormatted(format_inline(link_definitions, input, Ledger(Self)))

\* Pieces of the formatted texts: backslashes before punctuation and
\* before other characters, entities with and without semicolon, known
\* and unknown, numeric in both bases, and plain emphasis
InlinePieces ==
    {<<>>,
     <<"a">>,
     <<BSLASH>>,
     <<BSLASH, "a">>,
     <<BSLASH, "*", "a", BSLASH, "*">>,
     <<BSLASH, "*", "a", "*">>,
     <<BSLASH, BSLASH, "*", "a", "*">>,
     <<BSLASH, "[", "a", BSLASH, "]", "(", "u", ")">>,
     <<BSLASH, "&", "a", "m", "p", ";">>,
     <<"*", "a", "*">>,
     <<"&", "a", "m", "p", ";">>,
     <<"&", "a", "m", "p">>,
     <<"&", "n", "b", "s", "p", " ">>,
     <<"&", "z", "z", ";">>,
     <<"&", "#", "6", "5", ";">>,
     <<"&", "#", "6", "5">>,
     <<"&", "#", "x", "2", "7", "0", "5", ";">>,
     <<"&", "#", "X", "D", "8", "0", "0", ";">>,
     <<"&", "#", ";">>,
     <<"&", ";">>}

InlineTexts == {a \o b : a \in InlinePieces, b \in InlinePieces}

InitInline == InitWith(InlineTexts)
SpecInline == InitInline /\ [][FormatInline]_vars

\* ------------------------------------------------------------------------
\* Tables, fed line by line
\* ------------------------------------------------------------------------
\* Cells: plain, wide, emphasised (narrower when formatted), a reference
\* without definition (wider when formatted)
TableCellTexts ==
    {<<"a">>,
     <<"a", "b", "c", "d">>,
     <<CHECK>>,
     <<"*", "*", "a", "b", "*", "*">>,
     <<"[", "a", "]">>}

MaxColumns == 2
MaxRows == 1

\* The line of a table row: | cell | cell |
TableRowLine(cells) ==
    <<"|">> \o Concat([i \in 1..Len(cells) |-> <<" ">> \o cells[i] \o <<" ", "|">>]) \o <<NL>>

\* A header of MaxColumns cells, the delimiter row, up to MaxRows rows of
\* one to MaxColumns cells, and a blank line
TableDocuments ==
    {TableRowLine(header)
     \o TableRowLine([i \in 1..MaxColumns |-> <<"-", "-", "-">>])
     \o Concat([r \in 1..Len(rows) |-> TableRowLine(rows[r])])
     \o <<NL>> :
        header \in [1..MaxColumns -> TableCellTexts],
        rows \in UNION {[1..n -> UNION {[1..c -> TableCellTexts] : c \in 1..MaxColumns}] :
                            n \in 0..MaxRows}}

InitTable == InitWith(TableDocuments)
SpecTable == InitTable /\ [][NextLine]_vars

\* ------------------------------------------------------------------------
\* Task lists, fed line by line
\* ------------------------------------------------------------------------
\* List items with a task marker followed by whitespace, one whose marker
\* is followed by a letter, a plain item and the blank line
TaskItemLines ==
    {<<"-", " ", "[", " ", "]", " ", "a">>,
     <<"-", " ", "[", "x", "]", " ", "a">>,
     <<"-", " ", "[", "X", "]", " ", "a">>}

TaskLines == TaskItemLines \cup {<<"-", " ", "[", "x", "]", "a">>, <<"-", " ", "a">>, <<>>}

InitTask == InitWith(Documents(TaskLines))
SpecTask == InitTask /\ [][NextLine]_vars

\* ------------------------------------------------------------------------
\* Plain paragraphs of one line
\* ------------------------------------------------------------------------
PlainWords == {<<"a">>, <<"a", "b", "c", "d", "e", "f">>, <<"a", "b", "c", "d", "e", "f", "g">>}

\* One to MaxWords words with one or two spaces between them, behind no or
\* one space, followed by nothing, two spaces or a backslash
PlainLines ==
    {lead \o Concat([k \in 1..Len(ws) |-> (IF k = 1 THEN <<>> ELSE gap) \o ws[k]]) \o trail :
        lead \in {<<>>, <<" ">>},
        gap \in {<<" ">>, <<" ", " ">>},
        trail \in {<<>>, <<" ", " ">>, <<BSLASH>>},
        ws \in UNION {[1..n -> PlainWords] : n \in 1..MaxWords}}

\* The line and a blank line
PlainDocuments == {line \o <<NL, NL>> : line \in PlainLines}

InitPlain == InitWith(PlainDocuments)
SpecPlain == InitPlain /\ [][NextLine]_vars

\* Lines of the documents that exercise the list states
ListStateLines ==
    {<<"-", " ", "a">>,
     <<"1", ".", " ", "b">>,
     <<>>,
     <<"a">>,
     <<" ", " ", " ", " ", "c">>,
     <<" ", " ", " ", " ", " ">> \o Fence3,
     <<"-", " ", "-", " ", "-">>,
     <<"*", " ", "*", " ", "*">>,
     <<" ", "_", TAB, "_", " ", "_">>}

InitList == InitWith(Documents(ListStateLines))
SpecList == InitList /\ [][NextLine]_vars

\* Lines of the documents that exercise fenced code blocks
FenceLines ==
    {Fence3,
     Tilde3,
     <<" ">> \o Fence3,
     <<>>,
     <<"#", " ", "a">>,
     <<"-", " ", "a">>,
     <<">", "a">>,
     <<"x">>,
     <<" ", " ", "x">>,
     <<EACUTE>>}

InitFence == InitWith(Documents(FenceLines))
SpecFence == InitFence /\ [][NextLine]_vars

\* Lines of the documents that exercise the paragraph state: text with and
\* without pipes, delimiter rows, rows that are none, setext underlines
PromoteLines ==
    {<<"a">>,
     <<"a", "|", "b">>,
     <<"|", "-", "-", "-", "|">>,
     <<":", "-", "-", "-", "|", "-", "-", "-", ":">>,
     <<"|", "-", "-", "|">>,
     <<"|", ":", "|">>,
     <<"-", "-", "-">>,
     <<" ", "=">>,
     <<>>}

InitPromote == InitWith(Documents(PromoteLines))
SpecPromote == InitPromote /\ [][NextLine]_vars

\* Lines of the documents that exercise blockquotes: markers of one and
\* two levels, lines without a marker, the blank line
QuoteLines ==
    {<<">", "a">>,
     <<">", ">", " ", "b">>,
     <<" ", ">", " ", ">", "c">>,
     <<"a">>,
     <<"#", " ", "a">>,
     <<"-", " ", "a">>,
     <<" ", " ", " ", " ", ">", "d">>,
     <<>>}

InitQuote == InitWith(Documents(QuoteLines))
SpecQuote == InitQuote /\ [][NextLine]_vars

\* ------------------------------------------------------------------------
\* Calls of wrap_text with indents of any kind
\* ------------------------------------------------------------------------
\* Words: plain, wider than the terminal, styled, a hyperlink whose URL
\* holds a space
TokenWords ==
    {<<"a">>,
     <<"b", "c">>,
     <<"a", "b", "c", "d", "e", "f", "g">>,
     Sgr(<<"1">>) \o <<"a", "b">> \o SgrReset,
     Osc8Open(<<"u", " ", "v">>) \o <<"a">> \o Osc8Close}

\* Up to MaxWords words separated by one space or by two
TokenTexts ==
    {Concat([k \in 1..Len(ws) |-> ws[k] \o gap]) :
        ws \in UNION {[1..n -> TokenWords] : n \in 1..MaxWords},
        gap \in {<<" ">>, <<" ", " ">>}}

\* Indents: none, spaces, a bullet, a marker without whitespace
TokenIndents == {<<>>, <<" ", " ">>, <<" ", "U+2022", " ">>, <<"a">>}

InitTokens == InitWith(TokenTexts)

NextTokens ==
    \E first_indent \in TokenIndents, cont_indent \in TokenIndents :
        WrapText(first_indent, cont_indent, TermWidth)

SpecTokens == InitTokens /\ [][NextTokens]_vars

\* Lines of the documents that put a link reference definition behind
\* every kind of block
DefinitionLines == {<<"[", "a", "]", ":", " ", "u">>, <<"[", "A", "]", ":", " ", "v">>}

DefinitionContextLines ==
    DefinitionLines
    \cup {<<"a">>,
          <<"-", " ", "a">>,
          <<">", "a">>,
          Fence3,
          <<"|", "-", "-", "-", "|">>,
          <<>>}

InitDefinition == InitWith(Documents(DefinitionContextLines))
SpecDefinition == InitDefinition /\ [][NextLine]_vars

\* Lines of the documents whose table rows differ in their number of
\* cells: rows of one, two and three cells, and the delimiter row
RaggedLines ==
    {<<"|", "a", "|">>,
     <<"a", "|", "b">>,
     <<"a", "|", "b", "|", "c">>,
     <<"|", "-", "-", "-", "|">>,
     <<>>}

InitRagged == InitWith(Documents(RaggedLines))
SpecRagged == InitRagged /\ [][NextLine]_vars

\* Lines of the documents whose lists mix numbers, bullets and nesting:
\* ordered items that carry 3, 1 and 7, an ordered and an unordered item
\* indented by four spaces, an unordered item, the blank line
NumberedLines ==
    {<<"3", ".", " ", "a">>,
     <<"1", ".", " ", "b">>,
     <<" ", " ", " ", " ", "7", ".", " ", "c">>,
     <<" ", " ", " ", " ", "-", " ", "d">>,
     <<"-", " ", "e">>,
     <<>>}

InitNumbered == InitWith(Documents(NumberedLines))
SpecNumbered == InitNumbered /\ [][NextLine]_vars

\* The run of the reference caller: the whole text fed as one chunk to a
\* fresh parser, then flush.  [em, panic, p]
WholeRunEnd(a, b) == [em |-> a.em \o b.em, panic |-> b.panic, p |-> b.p]

WholeRunFed(a) ==
    IF a.panic THEN [em |-> <<>>, panic |-> TRUE, p |-> a.p]
    ELSE WholeRunEnd(a, flush(a.p, a.g))

WholeRun(text) == WholeRunFed(feed(NewParser, NewProgress, text))

\* ---------------------------------------------------------------------
\* Re-chunking invariance

\* C1: the texts returned by the feed calls over any chunking of an input,
\* followed by the text of flush, concatenate to the text obtained by
\* feeding the whole input as one chunk and flushing; a run that stops in
\* a panic stops in one when the text fed so far is given as one chunk.
RechunkingInvariance ==
    /\ phase = "flushed" =>
          LET w == WholeRun(fed)
          IN ~w.panic /\ TextOf(output) = TextOf(w.em)
    /\ phase = "panicked" => WholeRun(fed).panic

\* A flushed run that returned text and in which some feed call ended in
\* the middle of a line.
RechunkedRun == phase = "flushed" /\ split /\ output # <<>> /\ Len(fed) >= 4

\* ---------------------------------------------------------------------
\* Output only for completed blocks

NotBibliography(e) == e.of # "bibliography"

\* The text up to the end of line n - 1 (lines counted from 1).
RECURSIVE LinesBefore(_, _)
LinesBefore(text, n) ==
    IF n <= 1 \/ text = <<>> THEN <<>>
    ELSE LET nl == FindChar(text, NL)
         IN IF nl = 0 THEN text
            ELSE TakeN(text, nl) \o LinesBefore(DropN(text, nl), n - 1)

\* C2: while no flush has happened and a block is open, everything the feed
\* calls have returned belongs to blocks that began before the open block:
\* the open block has contributed nothing, and the returned text is the
\* text the parser produces for the lines before the open block's first
\* line alone (less the bibliography).
OpenBlockSilent ==
    (phase = "feeding" /\ current_block.kind # "None") =>
        /\ \A k \in 1..Len(output) : output[k].first < progress.open_since
        /\ TextOf(output) =
              TextOf(SelectSeq(WholeRun(LinesBefore(fed, progress.open_since)).em,
                               NotBibliography))

\* A block that has taken two lines or more is open after earlier blocks
\* were returned.
OpenBlockAfterOutput ==
    /\ phase = "feeding"
    /\ current_block.kind # "None"
    /\ output # <<>>
    /\ progress.lineno > progress.open_since

\* ---------------------------------------------------------------------
\* Order of the output

\* C3: the emissions come in the order of the input lines that began them;
\* when one line both ends a block and yields a second emission, the ended
\* block comes first; the bibliography is the last text of flush.
OutputMirrorsInput ==
    /\ \A j, k \in 1..Len(output) :
          j < k => output[j].first < output[k].first /\ output[j].at <= output[k].at
    /\ \A k \in 1..Len(output) :
          output[k].of = "bibliography" => k = Len(output) /\ phase = "flushed"

\* One line ended a block and yielded a second emission, and the flush
\* appended a bibliography.
TwoEmissionsOneLine ==
    /\ phase = "flushed"
    /\ \E k \in 1..Len(output) - 2 :
          /\ output[k].of = "block"
          /\ output[k + 1].at = output[k].at
          /\ output[k + 1].of = "line"
    /\ output[Len(output)].of = "bibliography"

\* ---------------------------------------------------------------------
\* No input is rejected

\* C4: no input makes the parser fail: no run ends in a panic.
NoInputRejected == phase # "panicked"

\* ---------------------------------------------------------------------
\* State and builder

\* The builder kind that goes with a state kind.
BuilderOf(kind) ==
    CASE kind = "Ready" -> "None"
      [] kind = "InParagraph" -> "Paragraph"
      [] kind = "InCodeBlock" -> "CodeBlock"
      [] kind = "InList" -> "List"
      [] kind = "InListAfterBlank" -> "List"
      [] kind = "InTable" -> "Table"
      [] kind = "InBlockquote" -> "Blockquote"
      [] OTHER -> "?"

\* C5: after every processed line the builder kind matches the state kind:
\* Ready with None, InParagraph with Paragraph, InCodeBlock with CodeBlock,
\* InList and InListAfterBlank with List, InTable with Table, InBlockquote
\* with Blockquote.
BuilderMatchesState == current_block.kind = BuilderOf(state.kind)

\* A paragraph has been promoted to a table, after earlier lines were
\* processed in other states.
PromotedToTable ==
    /\ state.kind = "InTable"
    /\ current_block.kind = "Table"
    /\ progress.open_since > 1
    /\ progress.lineno > progress.open_since

\* The last processed line, or the flush, emitted a block.
BlockJustEmitted ==
    \E k \in 1..Len(output) : output[k].of = "block" /\ output[k].at = progress.lineno

\* C6: an emission of a block leaves the state Ready and the builder None
\* together: after the line that caused it, the parser is Ready with no
\* builder, or in a block that this very line opened after the reset; after
\* flush the parser is Ready with no builder and an empty line buffer.
EmissionResets ==
    /\ (phase = "feeding" /\ BlockJustEmitted) =>
          \/ state = Ready /\ current_block = NoBlock
          \/ /\ progress.open_since = progress.lineno
             /\ current_block.kind = BuilderOf(state.kind)
             /\ current_block.kind # "None"
    /\ phase = "flushed" => state = Ready /\ current_block = NoBlock /\ buffer = <<>>

\* The flush emitted the block that the last line had opened, after a setext
\* underline had emitted a heading.
FlushEmittedOpenBlock ==
    /\ phase = "flushed"
    /\ Len(output) >= 2
    /\ output[Len(output)].of = "block"
    /\ output[Len(output)].first = progress.lineno
    /\ \E k \in 1..Len(output) - 1 :
          output[k].of = "block" /\ StartsWith(output[k].text, HeadingStyle \o <<"#", "#", " ">>)

\* ---------------------------------------------------------------------
\* Citations and link definitions

\* C7: citation numbers are assigned 1, 2, 3, ... in rendering order, so
\* the ledger is strictly increasing in its numbers; an entry of the ledger
\* is never changed, reused or removed by a later feed call, by a
\* definition that arrives later, or by flush.
CitationNumbersStable ==
    /\ [](\A k \in 1..Len(pending_citations) : pending_citations[k][1] = k)
    /\ [][/\ Len(pending_citations') >= Len(pending_citations)
          /\ SubSeq(pending_citations', 1, Len(pending_citations)) = pending_citations]_vars

\* Two citations were numbered, and the label of one of them was defined
\* by the time of the flush.
CitedThenDefined ==
    /\ phase = "flushed"
    /\ Len(pending_citations) >= 2
    /\ \E k \in 1..Len(pending_citations) :
          normalize_link_label(pending_citations[k][2]) \in DOMAIN link_definitions

\* How a hyperlink to url with this text begins wherever it is rendered (a
\* heading restyles what follows the text).
LinkTo(url, text) == Osc8Open(url) \o LinkStyle \o text \o SgrReset

\* The URLs of the definition lines of RefLines: both lines define the
\* normalized label "a".
LabelA == <<"a">>
RefUrls == {<<"u">>, <<"v">>}

\* C8: link definitions are first-wins: a stored definition keeps its url
\* and title whatever definition lines follow, and every hyperlink that a
\* reference has been rendered to targets the stored (first) URL.
DefinitionsFirstWins ==
    /\ [][\A l \in DOMAIN link_definitions :
             /\ l \in DOMAIN link_definitions'
             /\ link_definitions'[l] = link_definitions[l]]_vars
    /\ [](\A k \in 1..Len(output) : \A url \in RefUrls :
             Contains(output[k].text, Osc8Open(url)) =>
                 LabelA \in DOMAIN link_definitions /\ link_definitions[LabelA].url = url)

\* Two definition lines for one normalized label were processed, then a
\* reference to it.
SecondDefinitionIgnored ==
    /\ phase = "flushed"
    /\ fed = <<"[", "a", "]", ":", " ", "u", NL, "[", "A", "]", ":", " ", "v", NL, "#", " ", "[", "x", "]", "[", "A", "]", NL>>
    /\ link_definitions[LabelA].url = <<"u">>
    /\ Contains(TextOf(output), LinkTo(<<"u">>, <<"x">>))

\* The reference links of three forms to the label "a", with their texts.
RefForms ==
    {[src |-> <<"[", "x", "]", "[", "A", "]">>, text |-> <<"x">>],
     [src |-> <<"[", "A", "]", "[", "]">>, text |-> <<"A">>],
     [src |-> <<"[", " ", "A", " ", "]">>, text |-> <<" ", "A", " ">>]}

HeadingFullRef == <<"#", " ", "[", "x", "]", "[", "A", "]">>

\* C9: a reference link whose normalized label is defined when its block is
\* rendered comes out as an OSC8 hyperlink to the stored URL, whatever the
\* case of the label, and leaves the ledger and the counter alone: a step
\* never numbers a label that was defined before it; the heading line with
\* a full reference renders to the hyperlink; and in every reachable parser
\* each form of reference to a defined label renders to the hyperlink.
ResolvedReferenceIsHyperlink ==
    /\ [][\A k \in Len(pending_citations) + 1..Len(pending_citations') :
             normalize_link_label(pending_citations'[k][2])
                 \notin DOMAIN link_definitions]_vars
    /\ [][(/\ phase = "feeding"
           /\ state = Ready
           /\ buffer = <<>>
           /\ StartsWith(input, HeadingFullRef \o <<NL>>)
           /\ LabelA \in DOMAIN link_definitions)
          => /\ Len(output') = Len(output) + 1
             /\ Contains(output'[Len(output')].text,
                         LinkTo(link_definitions[LabelA].url, <<"x">>))
             /\ pending_citations' = pending_citations
             /\ next_citation_number' = next_citation_number]_vars
    /\ [](LabelA \in DOMAIN link_definitions =>
             \A form \in RefForms :
                LET f == format_inline(link_definitions, form.src, Ledger(Self))
                IN /\ f.out = Hyperlink(link_definitions[LabelA].url, form.text)
                   /\ f.cits = pending_citations
                   /\ f.next = next_citation_number)

\* A reference in capitals to a label defined in lower case was rendered
\* to a hyperlink, and nothing was numbered.
ResolvedReferenceRendered ==
    /\ fed = <<"[", "a", "]", ":", " ", "u", NL, "#", " ", "[", "x", "]", "[", "A", "]", NL>>
    /\ Len(output) = 1
    /\ Contains(output[1].text, LinkTo(<<"u">>, <<"x">>))
    /\ pending_citations = <<>>
    /\ next_citation_number = 1

\* line k of the bibliography text: 1 is the empty line before the header
BibliographyLine(text, k) == SplitOn(text, NL)[k]

\* C10: at flush an empty ledger yields no bibliography; otherwise the
\* bibliography is the last emission and has exactly one line per ledger
\* entry, in ascending citation number: [n], then the hyperlink to the URL
\* when the normalized label is defined by then, else (unresolved).
BibliographyAtFlush ==
    phase = "flushed" =>
        LET n == Len(pending_citations)
            last == output[Len(output)]
            bibs == SelectSeq(output, LAMBDA e : e.of = "bibliography")
        IN IF n = 0 THEN bibs = <<>>
           ELSE /\ Len(bibs) = 1
                /\ last.of = "bibliography"
                /\ Len(SplitOn(last.text, NL)) = n + 5
                /\ \A k \in 1..n :
                      LET entry == BibliographyLine(last.text, k + 3)
                          label == normalize_link_label(pending_citations[k][2])
                      IN /\ StartsWith(entry, <<"[">> \o NumStr(k) \o <<"]", " ">>)
                         /\ IF label \in DOMAIN link_definitions
                            THEN /\ Contains(entry, Hyperlink(link_definitions[label].url,
                                                              link_definitions[label].url))
                                 /\ ~Contains(entry, Unresolved)
                            ELSE /\ Contains(entry, Unresolved)
                                 /\ ~Contains(entry, Osc8Close)

\* A bibliography of two entries: the first cited before its label was
\* defined and resolved by the flush, the second unresolved.
BibliographyMixed ==
    /\ phase = "flushed"
    /\ Len(pending_citations) = 2
    /\ normalize_link_label(pending_citations[1][2]) \in DOMAIN link_definitions
    /\ normalize_link_label(pending_citations[2][2]) \notin DOMAIN link_definitions

\* No citation was numbered, and the flush returned no bibliography.
NoBibliography ==
    /\ phase = "flushed"
    /\ pending_citations = <<>>
    /\ output # <<>>

\* ---------------------------------------------------------------------
\* Image prefetch
\* ---------------------------------------------------------------------
\* C11: the call that waited in prefetch_images formats the block and
\* returns only when every worker of the batch has finished and every
\* result has been received, and no worker is running while no call is in
\* progress.
PrefetchBarrier ==
    [][/\ pc' = "idle" => \A w \in DOMAIN workers' : ~workers'[w].running
       /\ pc # "idle" /\ pc' = "idle" =>
            /\ rx = <<>>
            /\ \A w \in DOMAIN workers : ~workers[w].running /\ workers[w].result # "none"]_vars

\* A call has returned behind a batch of at least two workers.
BatchJoined ==
    /\ pc = "idle"
    /\ Len(workers) >= 2
    /\ output # <<>>

\* C12: the cache is written only when no worker of the batch is fetching.
CacheUntouchedWhileFetching ==
    [][image_cache' # image_cache => \A w \in DOMAIN workers : ~workers[w].running]_vars

\* C13: the workers spawned for a block are one per distinct URL of the
\* block that is not cached, and none else.
OneWorkerPerUrl ==
    [][pc = "idle" /\ pc' # "idle" =>
         /\ \A i, j \in DOMAIN workers' : workers'[i].url = workers'[j].url => i = j
         /\ {workers'[i].url : i \in DOMAIN workers'}
              = Range(extract_image_urls(extract_block_text(current_block)))
                  \ DOMAIN image_cache]_vars

\* The sequence that shows the image of source string u
ImageOf(u) == <<ESC, "_", "G">> \o u \o <<ESC, BSLASH>>

\* C14: when a call returns behind a batch, a URL whose fetch failed is
\* not cached and the returned text does not show its image, a URL whose
\* fetch succeeded is cached, and the call has returned normally.
FailureIsolated ==
    [][pc # "idle" /\ pc' = "idle" =>
         /\ phase' # "panicked"
         /\ \A w \in DOMAIN workers :
              IF workers[w].result = "err"
              THEN /\ workers[w].url \notin DOMAIN image_cache'
                   /\ \A k \in (Len(output) + 1)..Len(output') :
                         ~Contains(output'[k].text, ImageOf(workers[w].url))
              ELSE workers[w].url \in DOMAIN image_cache']_vars

\* C15: every image the renderer has shown was served from the cache.
RenderedFromCache ==
    \A k \in 1..Len(output) : \A u \in ImageUrls :
        Contains(output[k].text, ImageOf(u)) => u \in DOMAIN image_cache

\* ---------------------------------------------------------------------
\* Wrapping
\* ---------------------------------------------------------------------
\* The columns a text takes on the terminal: escape sequences none, a wide
\* character two, any other character one.
VisibleWidth(text) ==
    Len(strip_ansi(text))
        + Cardinality({i \in 1..Len(strip_ansi(text)) : strip_ansi(text)[i] \in {CHECK, IDEO}})

\* line is an indent of the call and one token of its text, and the token
\* alone is wider than the width.
SingleOverWideToken(line, call) ==
    \E indent \in {call.first_indent, call.cont_indent} :
        \E token \in Range(WrapTokens(input, 1, <<>>)) :
            /\ line = indent \o token
            /\ VisibleWidth(token) > call.width

\* C16: no line that wrap_text returns is wider on the terminal than the
\* configured width (escape sequences counted as 0, wide characters as 2,
\* the indent included), except a line that holds a single token which is
\* itself wider than the width.
WrapWidthBound ==
    \A k \in DOMAIN output :
        output[k].of = "wrap_text" =>
            \A line \in Range(SplitOn(output[k].text, NL)) :
                \/ VisibleWidth(line) <= output[k].width
                \/ SingleOverWideToken(line, output[k])

\* C17: wrap_text of an empty text, or of a text of whitespace only,
\* returns exactly the first indent, with nothing appended.
EmptyWrapIsFirstIndent ==
    \A k \in DOMAIN output :
        output[k].of = "wrap_text" /\ Range(input) \subseteq WsChars =>
            output[k].text = output[k].first_indent

\* ---------------------------------------------------------------------
\* Tables
\* ---------------------------------------------------------------------
\* The box-drawing characters that separate the columns of a table line
ColumnSeparators ==
    {BOXV, "U+250C", "U+252C", "U+2510", "U+251C", "U+253C", "U+2524",
     "U+2514", "U+2534", "U+2518"}

\* The visible columns at which line shows a column separator
SeparatorColumns(line) ==
    {VisibleWidth(SubSeq(strip_ansi(line), 1, i - 1)) :
        i \in {j \in 1..Len(strip_ansi(line)) : strip_ansi(line)[j] \in ColumnSeparators}}

\* The lines of a rendered table
TableLinesOf(text) == {line \in Range(SplitOn(text, NL)) : line # <<>>}

IsTable(e) == e.text # <<>> /\ e.text[1] = "U+250C"

\* C18: every line of a rendered table (borders, header row, separator,
\* data rows) has its column separators at the same visible columns, a
\* wide character counted as 2 and escape sequences as 0, whatever the
\* cells hold.
TableSeparatorsAligned ==
    \A k \in DOMAIN output :
        IsTable(output[k]) =>
            \A l1, l2 \in TableLinesOf(output[k].text) :
                SeparatorColumns(l1) = SeparatorColumns(l2)

\* ---------------------------------------------------------------------
\* Backslash escapes and HTML entities
\* ---------------------------------------------------------------------
\* char::is_ascii_punctuation
AsciiPunctuation ==
    {"!", DQUOTE, "#", "$", "%", "&", "'", "(", ")", "*", "+", ",", "-", ".", "/", ":",
     ";", "<", "=", ">", "?", "@", "[", BSLASH, "]", "^", "_", BTICK, "{", "|", "}", "~"}

\* chars[i] is a backslash in front of an ASCII punctuation character.
IsEscape(chars, i) ==
    chars[i] = BSLASH /\ i + 1 <= Len(chars) /\ chars[i + 1] \in AsciiPunctuation

\* The text from i on with every escape replaced by the character it escapes
RECURSIVE Unescaped(_, _)
Unescaped(chars, i) ==
    IF i > Len(chars) THEN <<>>
    ELSE IF IsEscape(chars, i) THEN <<chars[i + 1]>> \o Unescaped(chars, i + 2)
    ELSE <<chars[i]>> \o Unescaped(chars, i + 1)

\* From i on, no character that starts a rule of format_inline stands
\* outside an escape.
RECURSIVE MarkupEscaped(_, _)
MarkupEscaped(chars, i) ==
    IF i > Len(chars) THEN TRUE
    ELSE IF IsEscape(chars, i) THEN MarkupEscaped(chars, i + 2)
    ELSE chars[i] \notin RuleStarts /\ MarkupEscaped(chars, i + 1)

\* C19: a backslash followed by an ASCII punctuation character emits that
\* character literally and consumes both, so that the character opens or
\* closes nothing; a backslash before any other character, or at the end of
\* the text, stays.  A text whose markup characters are all escaped is
\* therefore returned with its escapes resolved and nothing else changed.
BackslashEscapes ==
    \A k \in DOMAIN output :
        output[k].of = "format_inline" /\ MarkupEscaped(input, 1) =>
            output[k].text = Unescaped(input, 1)

\* s is the content of a numeric character reference: '#' and decimal
\* digits, or "#x" / "#X" and hexadecimal digits.
IsNumericReference(s) ==
    /\ Len(s) >= 2
    /\ s[1] = "#"
    /\ \/ \A j \in 2..Len(s) : DigitValue(s[j], 10) >= 0
       \/ /\ Len(s) >= 3
          /\ s[2] \in {"x", "X"}
          /\ \A j \in 3..Len(s) : DigitValue(s[j], 16) >= 0

\* Somewhere in chars stands a known entity name or a numeric reference
\* between '&' and ';'.
HasTerminatedEntity(chars) ==
    \E i \in 1..Len(chars) : \E e \in (i + 2)..Len(chars) :
        /\ chars[i] = "&"
        /\ chars[e] = ";"
        /\ \/ SubSeq(chars, i + 1, e - 1) \in DOMAIN HTML_ENTITIES
           \/ IsNumericReference(SubSeq(chars, i + 1, e - 1))

\* C20: format_inline decodes a named or numeric entity only when a
\* semicolon terminates it: a text without markup in which no known entity
\* is terminated by a semicolon (names without semicolon, unknown names) is
\* copied to the output unchanged.
EntityNeedsSemicolon ==
    \A k \in DOMAIN output :
        /\ output[k].of = "format_inline"
        /\ Range(input) \cap ((RuleStarts \ {"&"}) \cup {BSLASH}) = {}
        /\ ~HasTerminatedEntity(input)
        => output[k].text = input

\* ---------------------------------------------------------------------
\* Task lists
\* ---------------------------------------------------------------------
\* U+2610 BALLOT BOX and U+2611 BALLOT BOX WITH CHECK
TaskBoxes == {"U+2610", "U+2611"}

\* Every line fed so far is a task item or blank, and an item was fed.
OnlyTaskItemsFed ==
    /\ Range(SplitOn(fed, NL)) \subseteq TaskItemLines \cup {<<>>}
    /\ Range(SplitOn(fed, NL)) \cap TaskItemLines # {}

\* C21: a list item whose content starts with "[ ]", "[x]" or "[X]" and
\* whitespace is rendered as a task item with its box and is no reference
\* link: it allocates no citation number, and flush emits no bibliography
\* for it.
TaskItemsAreNotReferences ==
    OnlyTaskItemsFed =>
        /\ pending_citations = <<>>
        /\ next_citation_number = 1
        /\ \A k \in DOMAIN output :
            /\ output[k].of # "bibliography"
            /\ Range(output[k].text) \cap TaskBoxes # {}
            /\ "[" \notin Range(output[k].text)

\* ---------------------------------------------------------------------
\* Plain text
\* ---------------------------------------------------------------------
\* A line without its trailing backslash or trailing spaces
WithoutHardBreak(line) ==
    TrimEnd(IF EndsWith(line, <<BSLASH>>) THEN TakeN(line, Len(line) - 1) ELSE line)

\* A text without escape sequences and without the line feeds at its end
VisibleText(text) ==
    TakeN(strip_ansi(text), Len(strip_ansi(text)) - TrailCount(strip_ansi(text), {NL}))

\* The line the caller fed first, without its hard break
PlainLineFed == WithoutHardBreak(SplitOn(fed, NL)[1])

\* C22 as stated: the output for a plain line and a blank line, without
\* escape sequences and trailing blank line, equals the line apart from
\* trailing spaces or a trailing backslash.
PlainTextUnchanged ==
    \A k \in DOMAIN output : VisibleText(output[k].text) = PlainLineFed

\* C22, amended: the words of the output are the words of the line, in
\* order; the output equals the line apart from trailing spaces or a
\* trailing backslash when the line starts with a word, has single spaces
\* between its words and is not longer than the width.
PlainTextWords ==
    \A k \in DOMAIN output :
        /\ SplitWhitespace(VisibleText(output[k].text)) = SplitWhitespace(PlainLineFed)
        /\ PlainLineFed = Join(SplitWhitespace(PlainLineFed), <<" ">>) /\ Len(PlainLineFed) <= Width
           => VisibleText(output[k].text) = PlainLineFed

\* A line of several words, longer than the width, was emitted on several
\* lines.
PlainLineEmitted ==
    \E k \in DOMAIN output :
        /\ Len(SplitWhitespace(PlainLineFed)) >= 2
        /\ Len(PlainLineFed) > Width
        /\ Contains(VisibleText(output[k].text), <<NL>>)

\* ---------------------------------------------------------------------
\* The line buffer
\* ---------------------------------------------------------------------
\* The part of text behind its last line feed
AfterLastNewline(text) ==
    DropN(text, Len(text) - LeadCount([i \in 1..Len(text) |-> text[Len(text) + 1 - i]],
                                      {c \in Range(text) : c # NL}))

\* The chunk fed in this step
ChunkFed == DropN(fed', Len(fed))

\* C23: after every feed call that returns, the buffer holds no line feed
\* and is the part of the text fed so far behind its last line feed; every
\* complete line has been processed once, in order; a chunk without a line
\* feed produces no output and changes nothing but the buffer.
BufferHoldsPartialLine ==
    [][pc' = "idle" /\ phase' = "feeding" =>
         /\ NL \notin Range(buffer')
         /\ buffer' = AfterLastNewline(fed')
         /\ progress'.lineno = Cardinality({i \in 1..Len(fed') : fed'[i] = NL})
         /\ \A k \in DOMAIN output' : \A j \in 1..k :
                output'[j].at <= output'[k].at /\ output'[k].at <= progress'.lineno
         /\ NL \notin Range(ChunkFed) =>
                /\ buffer' = buffer \o ChunkFed
                /\ UNCHANGED <<output, state, current_block, link_definitions,
                               pending_citations, next_citation_number, progress>>]_vars

\* A feed call has returned with output and with half a line in the buffer.
PartialLineBuffered ==
    /\ phase = "feeding"
    /\ buffer # <<>>
    /\ output # <<>>
    /\ Len(fed) > Len(buffer) + 1

\* ---------------------------------------------------------------------
\* Lines that Ready ignores
\* ---------------------------------------------------------------------
\* The chunk fed in this step completes exactly one line: that line.
LineCompleted == TakeN(buffer \o ChunkFed, Len(buffer \o ChunkFed) - 1)

OneLineCompleted ==
    /\ ChunkFed # <<>>
    /\ ChunkFed[Len(ChunkFed)] = NL
    /\ NL \notin Range(LineCompleted)

\* A comment that is the whole line: <!-- ... -->, the empty ones included
IsCommentLine(line) ==
    StartsWith(Trim(line), CommentOpen) /\ EndsWith(Trim(line), CommentClose)

\* C24: in Ready a blank line, a whole-line HTML comment and a link
\* reference definition emit nothing and leave the state Ready and the
\* builder None; the blank line and the comment change nothing at all, the
\* definition changes only the definition table.
ReadyIgnoresLine ==
    [][/\ state.kind = "Ready"
       /\ OneLineCompleted
       /\ \/ LineCompleted = <<>>
          \/ IsCommentLine(LineCompleted)
          \/ parse_link_definition(LineCompleted) # NoDef
       => /\ phase' = "feeding"
          /\ output' = output
          /\ state' = state
          /\ current_block' = NoBlock
          /\ pending_citations' = pending_citations
          /\ next_citation_number' = next_citation_number
          /\ parse_link_definition(LineCompleted) = NoDef => link_definitions' = link_definitions]_vars

\* ---------------------------------------------------------------------
\* Thematic breaks and lists
\* ---------------------------------------------------------------------
\* A thematic break: up to three spaces, then at least three of one
\* character among - _ *, with nothing but spaces and tabs around them.
IsThematicBreak(line) ==
    \E n \in 0..3 : \E c \in {"-", "_", "*"} :
        /\ Len(line) > n
        /\ \A i \in 1..n : line[i] = " "
        /\ line[n + 1] = c
        /\ \A i \in (n + 1)..Len(line) : line[i] \in {c, " ", TAB}
        /\ Cardinality({i \in 1..Len(line) : line[i] = c}) >= 3

\* The emission of a rule for the line completed in this step
RuleEmitted ==
    [of |-> "line", text |-> format_horizontal_rule,
     at |-> progress.lineno + 1, first |-> progress.lineno + 1]

\* The emission of the list under construction by the line completed in
\* this step
ListEmitted ==
    [of |-> "block",
     text |-> format_list(link_definitions, current_block.items, Ledger(Self)).out,
     at |-> progress.lineno + 1, first |-> progress.open_since]

\* C25: a thematic break never opens or extends a list.  In Ready it emits
\* a rule and the state stays Ready; in InList the list is emitted, then
\* the rule, and the state becomes Ready.
RuleBeforeList ==
    [][OneLineCompleted /\ buffer = <<>> /\ IsThematicBreak(LineCompleted) =>
         /\ phase' = "feeding"
         /\ state'.kind \notin {"InList", "InListAfterBlank"}
         /\ current_block'.kind # "List"
         /\ state.kind = "Ready" =>
                state' = Ready /\ current_block' = NoBlock /\ output' = Append(output, RuleEmitted)
         /\ state.kind = "InList" =>
                /\ state' = Ready
                /\ current_block' = NoBlock
                /\ output' = output \o <<ListEmitted, RuleEmitted>>]_vars

\* A list was emitted by the line - - - or * * *, followed by a rule.
ListEndedByRule ==
    \E k \in 1..(Len(output) - 1) :
        /\ output[k].of = "block"
        /\ output[k].first < output[k].at
        /\ output[k + 1].of = "line"
        /\ output[k + 1].text = format_horizontal_rule
        /\ output[k + 1].at = output[k].at
        /\ SplitOn(fed, NL)[output[k].at] \in {<<"-", " ", "-", " ", "-">>, <<"*", " ", "*", " ", "*">>}
        /\ SplitOn(fed, NL)[output[k].at - 1] # <<>>

\* ---------------------------------------------------------------------
\* Blank lines inside lists
\* ---------------------------------------------------------------------
\* The lines of ListStateLines that carry a list marker
ItemLines == {<<"-", " ", "a">>, <<"1", ".", " ", "b">>}

\* The list marker lines fed since the line that opened the builder
ItemsFed ==
    LET IsItem(line) == line \in ItemLines
    IN SelectSeq(SubSeq(SplitOn(fed, NL), progress.open_since, progress.lineno), IsItem)

\* While a list is open, its builder holds the marker lines fed since it
\* was opened, in input order.
ListItemsKept ==
    state.kind \in {"InList", "InListAfterBlank"} =>
        /\ current_block.kind = "List"
        /\ [k \in DOMAIN current_block.items |-> current_block.items[k][3]] = ItemsFed

\* The call of this step has emitted the list under construction, whole,
\* before anything else.
ListEmittedFirst ==
    /\ Len(output') > Len(output)
    /\ TakeN(output', Len(output)) = output
    /\ output'[Len(output) + 1].of = "block"
    /\ output'[Len(output) + 1].text = ListEmitted.text
    /\ output'[Len(output) + 1].first = progress.open_since

\* C26: a blank line after list items moves the parser to InListAfterBlank
\* with the items kept and returns nothing; the list is emitted later, by
\* the line that ends it or by flush, with all its items in input order.
BlankLineKeepsList ==
    [][/\ ListItemsKept'
       /\ state.kind = "InList" /\ OneLineCompleted /\ buffer = <<>> /\ LineCompleted = <<>> =>
              /\ state' = [kind |-> "InListAfterBlank"]
              /\ current_block' = current_block
              /\ output' = output
              /\ phase' = "feeding"
       /\ state.kind = "InListAfterBlank" /\ buffer = <<>> /\ pc' = "idle" =>
              \/ /\ output' = output
                 /\ state'.kind \in {"InList", "InListAfterBlank"}
                 /\ current_block'.kind = "List"
                 /\ TakeN(current_block'.items, Len(current_block.items)) = current_block.items
              \/ /\ ListEmittedFirst
                 /\ \/ phase' = "flushed"
                    \/ OneLineCompleted]_vars

\* A list that a blank line had left open was emitted by the line that
\* ended it.
ListEmittedAfterBlank ==
    \E k \in DOMAIN output :
        /\ phase = "feeding"
        /\ output[k].of = "block"
        /\ output[k].first = 1
        /\ output[k].at = 3
        /\ SplitOn(fed, NL)[1] \in ItemLines
        /\ SplitOn(fed, NL)[2] = <<>>
        /\ SplitOn(fed, NL)[3] # <<>>

\* ---------------------------------------------------------------------
\* The line after a blank line in a list
\* ---------------------------------------------------------------------
\* The kind of the marker of a line of ItemLines
MarkerKind(line) == IF line[1] \in {"-", "+", "*"} THEN "Unordered" ELSE "Ordered"

\* The line is indented as the content of a list item is.
IsIndented(line) == StartsWith(line, <<" ", " ", " ", " ">>)

\* What the Ready rules do with the line completed in this step once the
\* open block is emitted
ReadyRules ==
    handle_ready_state([Self EXCEPT !.state = Ready, !.current_block = NoBlock], LineCompleted)

\* The line goes through the Ready rules once the open block is emitted:
\* the rules leave the state and the builder of r, and return the emissions
\* of r behind the block.
DispatchedThroughReady(r) ==
    /\ state' = r.p.state
    /\ current_block' = r.p.current_block
    /\ Len(output') = Len(output) + 1 + Len(r.em)
    /\ \A k \in DOMAIN r.em :
           /\ output'[Len(output) + 1 + k].of = r.em[k].of
           /\ output'[Len(output) + 1 + k].text = r.em[k].text

\* C27: in InListAfterBlank a marker line of the kind of the list's first
\* item is appended to the list and nothing is emitted; a marker line of
\* the other kind emits the list and starts a new list holding that line
\* alone; a blank line emits the list; a line that is neither indented nor
\* a marker emits the list and then goes through the Ready rules.
AfterBlankRules ==
    [][state.kind = "InListAfterBlank" /\ OneLineCompleted /\ buffer = <<>> =>
         /\ phase' = "feeding"
         /\ (LineCompleted \in ItemLines /\ MarkerKind(LineCompleted) = current_block.items[1][2]) =>
                /\ output' = output
                /\ state' = [kind |-> "InList"]
                /\ current_block' =
                       [current_block EXCEPT !.items =
                           Append(@, <<0, MarkerKind(LineCompleted), LineCompleted>>)]
         /\ (LineCompleted \in ItemLines /\ MarkerKind(LineCompleted) # current_block.items[1][2]) =>
                /\ output' = Append(output, ListEmitted)
                /\ state' = [kind |-> "InList"]
                /\ current_block' =
                       [kind |-> "List",
                        items |-> <<<<0, MarkerKind(LineCompleted), LineCompleted>>>>]
         /\ LineCompleted = <<>> =>
                /\ output' = Append(output, ListEmitted)
                /\ state' = Ready
                /\ current_block' = NoBlock
         /\ (LineCompleted # <<>> /\ LineCompleted \notin ItemLines /\ ~IsIndented(LineCompleted)) =>
                /\ ListEmittedFirst
                /\ DispatchedThroughReady(ReadyRules)]_vars

\* A marker of the other kind behind a blank line has ended an unordered
\* list and started an ordered one.
NewListAfterBlank ==
    /\ phase = "feeding"
    /\ state.kind = "InList"
    /\ current_block.kind = "List"
    /\ Len(current_block.items) = 1
    /\ current_block.items[1][2] = "Ordered"
    /\ Len(output) = 1
    /\ output[1].of = "block"
    /\ output[1].at = 3
    /\ SplitOn(fed, NL)[1] = <<"-", " ", "a">>
    /\ SplitOn(fed, NL)[2] = <<>>

\* ---------------------------------------------------------------------
\* Fenced code blocks
\* ---------------------------------------------------------------------
\* The emission of the code block under construction by the line
\* completed in this step
CodeEmitted ==
    [of |-> "block",
     text |-> format_code_block(current_block.lines, current_block.info),
     at |-> progress.lineno + 1, first |-> progress.open_since]

\* The line completed in this step has been appended to the code block.
LineAppended ==
    /\ current_block'.kind = "CodeBlock"
    /\ current_block'.info = current_block.info
    /\ Len(current_block'.lines) = Len(current_block.lines) + 1
    /\ TakeN(current_block'.lines, Len(current_block.lines)) = current_block.lines

\* C28: in InCodeBlock a line closes and emits the block if and only if
\* its content without the surrounding whitespace is the opening fence;
\* every other line is appended, emits nothing and leaves the state.
FenceClosesBlock ==
    [][state.kind = "InCodeBlock" /\ OneLineCompleted /\ buffer = <<>> =>
         IF Trim(LineCompleted) = state.fence
         THEN /\ output' = Append(output, CodeEmitted)
              /\ state' = Ready
              /\ current_block' = NoBlock
         ELSE /\ phase' = "feeding"
              /\ output' = output
              /\ state' = state
              /\ LineAppended]_vars

\* line stored for a code block of dedent offset n: some of its leading
\* spaces are removed, at most n, and all n when the line starts with them.
Dedented(line, n, stored) ==
    \E k \in 0..n :
        /\ k <= Len(line)
        /\ \A i \in 1..k : line[i] = " "
        /\ StartsWith(line, Repeat(<<" ">>, n)) => k = n
        /\ stored = DropN(line, k)

\* C29: a content line of a code block with dedent offset n is stored
\* with n leading spaces removed when present; nothing but leading spaces
\* is removed.
DedentRemovesSpaces ==
    [][/\ state.kind = "InCodeBlock"
       /\ OneLineCompleted /\ buffer = <<>>
       /\ Trim(LineCompleted) # state.fence
       => /\ phase' = "feeding"
          /\ LineAppended
          /\ Dedented(LineCompleted, state.indent_offset,
                      current_block'.lines[Len(current_block'.lines)])]_vars

\* ---------------------------------------------------------------------
\* Indented lines inside lists
\* ---------------------------------------------------------------------
\* The indent of the fence that rest opens (0 to 3 spaces, then three
\* backticks or three tildes), -1 when rest opens no fence.
FenceIndentOf(rest) ==
    IF \E k \in 0..3 : /\ Len(rest) >= k + 3
                       /\ \A i \in 1..k : rest[i] = " "
                       /\ SubSeq(rest, k + 1, k + 3) \in {Fence3, Tilde3}
    THEN CHOOSE k \in 0..3 : /\ Len(rest) >= k + 3
                             /\ \A i \in 1..k : rest[i] = " "
                             /\ SubSeq(rest, k + 1, k + 3) \in {Fence3, Tilde3}
    ELSE -1

\* The code block that the fence line opens, with dedent offset n
FenceOpened(line, n) ==
    /\ state' = [kind |-> "InCodeBlock",
                 info |-> Trim(DropN(TrimStart(line), 3)),
                 fence |-> TakeN(TrimStart(line), 3),
                 indent_offset |-> n]
    /\ current_block' = [kind |-> "CodeBlock", lines |-> <<>>,
                         info |-> Trim(DropN(TrimStart(line), 3))]

\* C30: in InList a line that is no marker, is indented by four spaces or
\* more and opens a code fence behind them emits the list and opens a code
\* block of dedent offset four plus the indent of the fence; an indented
\* line that opens no fence is dropped.
IndentedLineInList ==
    [][/\ state.kind = "InList"
       /\ OneLineCompleted /\ buffer = <<>>
       /\ IsIndented(LineCompleted)
       /\ ~parse_list_item(LineCompleted).ok
       => /\ phase' = "feeding"
          /\ IF FenceIndentOf(DropN(LineCompleted, 4)) >= 0
             THEN /\ output' = Append(output, ListEmitted)
                  /\ FenceOpened(LineCompleted, 4 + FenceIndentOf(DropN(LineCompleted, 4)))
             ELSE /\ output' = output
                  /\ state' = state
                  /\ current_block' = current_block]_vars

\* A fence indented by five spaces has ended a list and opened a code block
\* of dedent offset five.
FenceOpenedInList ==
    /\ phase = "feeding"
    /\ state.kind = "InCodeBlock"
    /\ state.indent_offset = 5
    /\ current_block = [kind |-> "CodeBlock", lines |-> <<>>, info |-> <<>>]
    /\ output # <<>>
    /\ output[Len(output)].of = "block"
    /\ output[Len(output)].at = progress.lineno
    /\ output[Len(output)].first < progress.lineno

\* ---------------------------------------------------------------------
\* The end of a table
\* ---------------------------------------------------------------------
\* The call of this step has emitted the table under construction, whole,
\* before anything else.
TableEmittedFirst ==
    /\ Len(output') > Len(output)
    /\ TakeN(output', Len(output)) = output
    /\ output'[Len(output) + 1].of = "block"
    /\ output'[Len(output) + 1].text =
           format_table(link_definitions, current_block.header, current_block.alignments,
                        current_block.rows, Ledger(Self)).out
    /\ output'[Len(output) + 1].first = progress.open_since

\* C31: in InTable a blank line and a line without | end and emit the
\* table, and the line that is not blank then goes through the Ready
\* rules, its emissions behind the table; a line with | is appended as a
\* data row, emits nothing and keeps the state.
TableEndsWithoutPipe ==
    [][state.kind = "InTable" /\ OneLineCompleted /\ buffer = <<>> =>
         /\ phase' = "feeding"
         /\ LineCompleted = <<>> =>
                /\ TableEmittedFirst
                /\ Len(output') = Len(output) + 1
                /\ state' = Ready
                /\ current_block' = NoBlock
         /\ (LineCompleted # <<>> /\ "|" \notin Range(LineCompleted)) =>
                TableEmittedFirst /\ DispatchedThroughReady(ReadyRules)
         /\ "|" \in Range(LineCompleted) =>
                /\ output' = output
                /\ state' = state
                /\ current_block' =
                       [current_block EXCEPT !.rows = Append(@, parse_table_row(LineCompleted))]]_vars

\* A heading line has ended a table: the table was emitted, then the
\* heading, by the same call.
TableEndedByHeading ==
    \E k \in 1..(Len(output) - 1) :
        /\ IsTable(output[k])
        /\ output[k].of = "block"
        /\ output[k + 1].of = "line"
        /\ output[k + 1].at = output[k].at
        /\ SplitOn(fed, NL)[output[k].at] = <<"#", " ", "a">>

\* ---------------------------------------------------------------------
\* Paragraphs: promotion to a table, setext headings
\* ---------------------------------------------------------------------
\* A cell of a delimiter row: an optional colon, three dashes or more, an
\* optional colon
IsDelimiterCell(cell) ==
    \E a \in {0, 1} : \E b \in {0, 1} :
        /\ Len(cell) >= a + 3 + b
        /\ a = 1 => cell[1] = ":"
        /\ b = 1 => cell[Len(cell)] = ":"
        /\ \A i \in (a + 1)..(Len(cell) - b) : cell[i] = "-"

\* The table-delimiter grammar: delimiter cells separated by |
IsDelimiterRow(line) ==
    LET pieces == SplitOn(line, "|")
        cells == {Trim(pieces[i]) : i \in 1..Len(pieces)} \ {<<>>}
    IN "|" \in Range(line) /\ cells # {} /\ \A cell \in cells : IsDelimiterCell(cell)

\* A setext underline: up to three spaces, then = only or - only
IsSetextUnderline(line, c) ==
    \E n \in 0..3 :
        /\ Len(line) > n
        /\ \A i \in 1..n : line[i] = " "
        /\ \A i \in (n + 1)..Len(line) : line[i] = c

\* C32: a paragraph is promoted to a table only when one line is buffered
\* and the line completed is a delimiter row; the promotion emits nothing,
\* makes the buffered line the header and moves to InTable; with two or
\* more lines buffered the delimiter row is appended to the paragraph; a
\* setext underline is never taken for a delimiter row.
PromotionNeedsOneLine ==
    [][state.kind = "InParagraph" /\ OneLineCompleted /\ buffer = <<>> =>
         /\ state'.kind = "InTable" =>
                Len(current_block.lines) = 1 /\ IsDelimiterRow(LineCompleted)
         /\ (Len(current_block.lines) = 1 /\ IsDelimiterRow(LineCompleted)) =>
                /\ phase' = "feeding"
                /\ output' = output
                /\ state' = [kind |-> "InTable"]
                /\ current_block' =
                       [kind |-> "Table",
                        header |-> parse_table_row(current_block.lines[1]),
                        alignments |-> parse_alignments(LineCompleted),
                        rows |-> <<>>]
         /\ (Len(current_block.lines) >= 2 /\ IsDelimiterRow(LineCompleted)) =>
                /\ phase' = "feeding"
                /\ output' = output
                /\ state' = state
                /\ current_block' = [current_block EXCEPT !.lines = Append(@, LineCompleted)]
         /\ (IsSetextUnderline(LineCompleted, "=") \/ IsSetextUnderline(LineCompleted, "-")) =>
                state' = Ready /\ Len(output') = Len(output) + 1]_vars

\* A paragraph of one line with two cells was promoted to a table by a
\* delimiter row with alignments.
ParagraphPromoted ==
    /\ phase = "feeding"
    /\ state.kind = "InTable"
    /\ current_block.kind = "Table"
    /\ current_block.header = <<<<"a">>, <<"b">>>>
    /\ current_block.alignments = <<"Left", "Right">>
    /\ output = <<>>

\* The heading of the given level that the setext underline completed in
\* this step makes of the paragraph
SetextHeading(level) ==
    [of |-> "block",
     text |-> format_heading(link_definitions, level,
                             Join(current_block.lines, <<" ">>), Ledger(Self)).out,
     at |-> progress.lineno + 1, first |-> progress.open_since]

\* C33: in InParagraph a setext underline emits one heading of its level
\* (= for 1, - for 2) whose text is the buffered lines joined by a space,
\* and leaves Ready with no builder: the paragraph is never emitted.
SetextEmitsHeading ==
    [][state.kind = "InParagraph" /\ OneLineCompleted /\ buffer = <<>> =>
         \A level \in {1, 2} :
             IsSetextUnderline(LineCompleted, IF level = 1 THEN "=" ELSE "-") =>
                 /\ phase' = "feeding"
                 /\ output' = Append(output, SetextHeading(level))
                 /\ state' = Ready
                 /\ current_block' = NoBlock]_vars

\* A paragraph of two lines became a heading of level 1, and nothing else
\* was emitted up to the flush.
TwoLinesUnderlined ==
    /\ phase = "flushed"
    /\ Len(output) = 1
    /\ output[1].at = 3
    /\ output[1].first = 1
    /\ StartsWith(output[1].text, HeadingStyle \o <<"#", " ">>)
    /\ SplitOn(fed, NL)[3] = <<" ", "=">>

\* ---------------------------------------------------------------------
\* Blockquotes
\* ---------------------------------------------------------------------
\* The markers > at the head of s, each with the one space that may follow
\* it: <<how many, what is left behind them>>
RECURSIVE QuoteMarkers(_)
QuoteMarkers(s) ==
    IF s = <<>> \/ Head(s) # ">" THEN <<0, s>>
    ELSE LET rest == IF Len(s) >= 2 /\ s[2] = " " THEN DropN(s, 2) ELSE Tail(s)
         IN <<QuoteMarkers(rest)[1] + 1, QuoteMarkers(rest)[2]>>

\* The nesting level of a line and its content: the markers behind up to
\* three spaces; level 0 for a line without a marker, stored as it is.
QuoteLineOf(line) ==
    LET n == LeadCount(line, {" "})
    IN IF n <= 3 /\ QuoteMarkers(DropN(line, n))[1] > 0 THEN QuoteMarkers(DropN(line, n))
       ELSE <<0, line>>

\* The state and the builder of a blockquote hold the same nesting level.
NestingAgrees ==
    state.kind = "InBlockquote" =>
        /\ current_block.kind = "Blockquote"
        /\ state.nesting_level = current_block.current_nesting

\* The emission of the blockquote under construction by the line
\* completed in this step
QuoteEmitted ==
    [of |-> "block",
     text |-> format_blockquote(link_definitions, current_block.lines, Ledger(Self)).out,
     at |-> progress.lineno + 1, first |-> progress.open_since]

\* C34: in InBlockquote only a blank line or flush ends the block.  A line
\* with markers is stored without them at its own nesting level, which
\* the state and the builder take over; a line without a marker is stored
\* unchanged at the current level; the state and the builder always agree
\* on the nesting level.
QuoteNesting ==
    [][/\ NestingAgrees'
       /\ state.kind = "InBlockquote" /\ pc' = "idle" /\ buffer = <<>> /\ fed' = fed =>
              phase' = "flushed" /\ state' = Ready /\ output' # output
       /\ state.kind = "InBlockquote" /\ OneLineCompleted /\ buffer = <<>> =>
              /\ phase' = "feeding"
              /\ IF LineCompleted = <<>>
                 THEN /\ output' = Append(output, QuoteEmitted)
                      /\ state' = Ready
                      /\ current_block' = NoBlock
                 ELSE /\ output' = output
                      /\ state'.kind = "InBlockquote"
                      /\ LET level == IF QuoteLineOf(LineCompleted)[1] > 0
                                      THEN QuoteLineOf(LineCompleted)[1]
                                      ELSE current_block.current_nesting
                         IN current_block' =
                                [kind |-> "Blockquote",
                                 lines |-> Append(current_block.lines,
                                                  <<level, QuoteLineOf(LineCompleted)[2]>>),
                                 current_nesting |-> level]]_vars

\* A line without a marker was stored at level 2 behind a line of two
\* markers.
LazyLineAtLevelTwo ==
    /\ phase = "feeding"
    /\ state = [kind |-> "InBlockquote", nesting_level |-> 2]
    /\ Len(current_block.lines) = 3
    /\ current_block.lines[1][1] = 1
    /\ current_block.lines[3] \in {<<2, <<"-", " ", "a">>>>, <<2, <<"#", " ", "a">>>>}

\* ---------------------------------------------------------------------
\* Tokens of wrapped text
\* ---------------------------------------------------------------------
\* Position i of chars lies inside an escape sequence: ESC [ ... m, or
\* ESC ] ... ESC \, or ESC and the character behind it.
InSequence(chars, i) ==
    \E s \in 1..i :
        /\ chars[s] = ESC
        /\ s < Len(chars)
        /\ LET end == IF chars[s + 1] = "[" THEN FindFrom(chars, {"m"}, s + 2)
                      ELSE IF chars[s + 1] = "]"
                           THEN IF \E j \in (s + 2)..(Len(chars) - 1) :
                                      chars[j] = ESC /\ chars[j + 1] = BSLASH
                                THEN 1 + CHOOSE j \in (s + 2)..(Len(chars) - 1) :
                                             /\ chars[j] = ESC /\ chars[j + 1] = BSLASH
                                             /\ \A l \in (s + 2)..(j - 1) :
                                                    ~(chars[l] = ESC /\ chars[l + 1] = BSLASH)
                                ELSE 0
                      ELSE s + 1
           IN i <= (IF end = 0 THEN Len(chars) ELSE end)

\* The tokens of chars from position i on: the runs between whitespace
\* that stands outside every escape sequence
RECURSIVE TokensFrom(_, _, _)
TokensFrom(chars, i, token) ==
    IF i > Len(chars) THEN (IF token = <<>> THEN <<>> ELSE <<token>>)
    ELSE IF chars[i] \in WsChars /\ ~InSequence(chars, i)
         THEN (IF token = <<>> THEN <<>> ELSE <<token>>) \o TokensFrom(chars, i + 1, <<>>)
    ELSE TokensFrom(chars, i + 1, Append(token, chars[i]))

\* The tokens on line k of the wrapped text of call c, behind its indent
LineTokens(c, k) ==
    LET line == SplitOn(c.text, NL)[k]
        indent == IF k = 1 THEN c.first_indent ELSE c.cont_indent
    IN TokensFrom(IF StartsWith(line, indent) THEN DropN(line, Len(indent)) ELSE line, 1, <<>>)

\* C35: wrap keeps tokens whole and in order: the tokens on the lines of
\* the output, read line by line, are the tokens of the input, and a
\* token wider than the width has a line of its own.
TokensKeptWhole ==
    \A n \in DOMAIN output :
        output[n].of = "wrap_text" =>
            LET lines == SplitOn(output[n].text, NL)
            IN /\ Concat([k \in 1..Len(lines) |-> LineTokens(output[n], k)])
                      = TokensFrom(input, 1, <<>>)
               /\ \A k \in 1..Len(lines) :
                      \A t \in 1..Len(LineTokens(output[n], k)) :
                          Len(strip_ansi(LineTokens(output[n], k)[t])) > output[n].width =>
                              Len(LineTokens(output[n], k)) = 1

\* ---------------------------------------------------------------------
\* The citation ledger and its counter
\* ---------------------------------------------------------------------
\* The reference of a line of RefLines, every non-blank one of which holds
\* exactly one: <<label, text>> of [text][label], [label][] or [label]
ReferenceOf(line) ==
    LET open == FindChar(line, "[")
        close == FindChar(line, "]")
        text == SubSeq(line, open + 1, close - 1)
        rest == DropN(line, close)
        label == IF rest # <<>> /\ Head(rest) = "[" /\ FindChar(rest, "]") > 2
                 THEN SubSeq(rest, 2, FindChar(rest, "]") - 1)
                 ELSE text
    IN <<label, text>>

\* The lines whose text the call of this step renders: a heading that
\* Ready completes, or the paragraph that a blank line or flush emits
LinesRendered ==
    IF buffer # <<>> \/ pc' # "idle" THEN <<>>
    ELSE IF state.kind = "Ready" /\ OneLineCompleted /\ StartsWith(LineCompleted, <<"#", " ">>)
         THEN <<LineCompleted>>
    ELSE IF /\ state.kind = "InParagraph"
            /\ \/ OneLineCompleted /\ LineCompleted = <<>>
               \/ phase' = "flushed"
         THEN current_block.lines
    ELSE <<>>

\* The references among them that have no definition at this moment
ReferencesCited ==
    LET Undefined(line) ==
            normalize_link_label(ReferenceOf(line)[1]) \notin DOMAIN link_definitions
    IN SelectSeq(LinesRendered, Undefined)

\* C36: every rendering of a reference without a definition takes the
\* next citation number and appends one entry to the ledger, whether or
\* not its label is cited already; the ledger is one shorter than the next
\* number, and its i-th entry carries the number i.
EveryCitationNumbered ==
    [][/\ Len(pending_citations') = next_citation_number' - 1
       /\ \A i \in DOMAIN pending_citations' : pending_citations'[i][1] = i
       /\ buffer = <<>> /\ pc' = "idle" =>
              /\ next_citation_number' = next_citation_number + Len(ReferencesCited)
              /\ pending_citations' =
                     pending_citations
                     \o [k \in 1..Len(ReferencesCited) |->
                            <<next_citation_number + k - 1,
                              ReferenceOf(ReferencesCited[k])[1],
                              ReferenceOf(ReferencesCited[k])[2]>>]]_vars

\* The label b was cited three times and carries the numbers 1, 2 and 3.
LabelCitedAgain ==
    /\ Len(pending_citations) = 3
    /\ next_citation_number = 4
    /\ \A i \in 1..3 : pending_citations[i] = <<i, <<"b">>, <<"b">>>>

\* ---------------------------------------------------------------------
\* Where link reference definitions are recorded
\* ---------------------------------------------------------------------
\* The definition table once the definition line completed in this step
\* is recorded: the first definition of a label wins.
DefinitionRecorded ==
    LET def == parse_link_definition(LineCompleted)
        label == normalize_link_label(def.label)
    IN IF label \in DOMAIN link_definitions THEN link_definitions
       ELSE link_definitions @@ (label :> [url |-> def.url, title |-> def.title])

\* The builder once the line completed in this step is stored as content
\* of the open paragraph, blockquote or code block
StoredAsContent ==
    IF state.kind = "InBlockquote"
    THEN [current_block EXCEPT
            !.lines = Append(@, <<current_block.current_nesting, LineCompleted>>)]
    ELSE [current_block EXCEPT !.lines = Append(@, LineCompleted)]

\* C37: a definition line is recorded only when it goes through the Ready
\* rules: in Ready, or as the line that ends a list or a table.  Behind a
\* paragraph line, as a line of a blockquote without marker and inside a
\* code block it is stored as content and the definition table stays.
DefinitionsOnlyThroughReady ==
    [][OneLineCompleted /\ buffer = <<>> =>
         /\ link_definitions' # link_definitions =>
                /\ LineCompleted \in DefinitionLines
                /\ state.kind \in {"Ready", "InList", "InListAfterBlank", "InTable"}
         /\ LineCompleted \in DefinitionLines =>
                IF state.kind \in {"Ready", "InList", "InListAfterBlank", "InTable"}
                THEN /\ link_definitions' = DefinitionRecorded
                     /\ state' = Ready
                     /\ current_block' = NoBlock
                ELSE /\ link_definitions' = link_definitions
                     /\ state' = state
                     /\ current_block' = StoredAsContent
                     /\ output' = output]_vars

\* A definition line is the second line of a paragraph, and no definition
\* is recorded.
DefinitionInParagraph ==
    /\ phase = "feeding"
    /\ state.kind = "InParagraph"
    /\ current_block.lines = <<<<"a">>, <<"[", "a", "]", ":", " ", "u">>>>
    /\ DOMAIN link_definitions = {}

\* ---------------------------------------------------------------------
\* Cells of a table row
\* ---------------------------------------------------------------------
\* The number of column separators line shows
SeparatorCount(line) ==
    Cardinality({j \in 1..Len(line) : line[j] \in ColumnSeparators})

\* The number of columns the border lines of a rendered table have
BorderColumns(text) == SeparatorCount(SplitOn(text, NL)[1]) - 1

\* C38: every rendered row of a table (the header row and each data row)
\* contains exactly as many cells as the border lines have columns, also
\* when a data row has more cells or fewer cells than the header.
RowsFillBorderColumns ==
    \A k \in DOMAIN output :
        IsTable(output[k]) =>
            \A line \in TableLinesOf(output[k].text) :
                SeparatorCount(line) - 1 = BorderColumns(output[k].text)

\* ---------------------------------------------------------------------
\* Numbers of ordered list items
\* ---------------------------------------------------------------------
\* The call of this step has rendered the list under construction.
ListRendered ==
    /\ buffer = <<>>
    /\ current_block.kind = "List"
    /\ Len(output') > Len(output)
    /\ output'[Len(output) + 1].of = "block"

\* The ordered items of the nesting level of item k up to item k
NumberOf(items, k) ==
    Cardinality({j \in 1..k : /\ items[j][2] = "Ordered"
                              /\ items[j][1] \div 4 = items[k][1] \div 4})

\* What the rendered line of item k starts with: two spaces per nesting
\* level, then its number or the bullet
ItemPrefix(items, k) ==
    Repeat(<<" ", " ">>, items[k][1] \div 4) \o <<" ", " ">>
    \o (IF items[k][2] = "Ordered" THEN NumStr(NumberOf(items, k)) \o <<".", " ">>
        ELSE <<"U+2022", " ">>)

\* C39: in an emitted list the ordered items of one nesting level (indent
\* divided by 4) are numbered 1, 2, 3, ... in order of appearance, whatever
\* numbers the source lines carry; unordered items consume no number; the
\* counter of a level is not reset when the list returns to that level
\* after items of another level.
OrderedItemsNumberedPerLevel ==
    [][ListRendered =>
         LET items == current_block.items
             lines == SplitOn(output'[Len(output) + 1].text, NL)
         IN /\ Len(lines) >= Len(items)
            /\ \A k \in 1..Len(items) : StartsWith(lines[k], ItemPrefix(items, k))]_vars

\* A list of three ordered items has been emitted whose second item is
\* nested: the third item carries the number 2 of the outer level.
ListReturnedToOuterLevel ==
    /\ phase = "flushed"
    /\ fed = <<"3", ".", " ", "a", NL,
               " ", " ", " ", " ", "7", ".", " ", "c", NL,
               "1", ".", " ", "b", NL>>
    /\ Len(output) = 1
    /\ output[1].text = <<" ", " ", "1", ".", " ", "a", NL,
                          " ", " ", " ", " ", "1", ".", " ", "c", NL,
                          " ", " ", "2", ".", " ", "b", NL, NL>>

====
